---- MODULE Spec2Model ----
(***************************************************************************)
(* Model of the OpenCog-inspired knowledge graph (AtomSpace) and the       *)
(* cognitive agent that drives it (perception, reasoning, action).         *)
(*                                                                         *)
(* Representation.                                                         *)
(*   - A float in [0,1] is a fixed-point integer in 0..One (One = 1.0);    *)
(*     a float division is an integer division (rounding towards zero).    *)
(*   - A Python str is a sequence of symbols; a symbol is one character,   *)
(*     or one of the literal fragments "perceived:", "execute:", "=>".     *)
(*   - The dict `atoms` keeps insertion order: it is a sequence of atoms.  *)
(*   - uuid4 ids are fresh: the k-th atom created gets id k; id 0 is an    *)
(*     id that no atom of the store ever has.                              *)
(*   - datetime.now() reads the logical clock `now`, which every mutating  *)
(*     call advances by one tick.                                          *)
(*   - threads holds the calls in progress when several callers share     *)
(*     the store; it is empty while a single caller works on it.           *)
(***************************************************************************)
EXTENDS Integers, Sequences, FiniteSets, TLC

VARIABLES atoms, processes, now, prev, last, threads

vars == <<atoms, processes, now, prev, last, threads>>

(***************************************************************************)
(* Bounds of the model.                                                    *)
(***************************************************************************)
MaxTime == 3

(***************************************************************************)
(* Fixed-point unit: the float 1.0, upper limit of strength/confidence.    *)
(***************************************************************************)
One == 100

Min(a, b) == IF a <= b THEN a ELSE b

(***************************************************************************)
(* AtomType                                                                *)
(***************************************************************************)
AtomType ==
  {"concept", "predicate", "evaluation", "implication",
   "execution", "goal", "belief", "action"}

(***************************************************************************)
(* Absent optional arguments (Python None).                                *)
(***************************************************************************)
NoTV == [strength |-> -1, confidence |-> -1]
NoType == "None"
NoName == <<"None">>
NoMin == -1

(***************************************************************************)
(* TruthValue(strength=..., confidence=...): pydantic validates            *)
(* ge=0.0, le=1.0 on both fields and raises otherwise.                     *)
(***************************************************************************)
TruthValueValid(strength, confidence) ==
  /\ 0 <= strength /\ strength <= One
  /\ 0 <= confidence /\ confidence <= One

TruthValue(strength, confidence) ==
  [strength |-> strength, confidence |-> confidence]

(***************************************************************************)
(* metadata: Dict[str, Any].  The keys the program reads or writes are     *)
(* modelled; an absent key is "None" (status) or -1 (the numbers).         *)
(***************************************************************************)
EmptyMeta ==
  [status |-> "None", priority |-> -1, goal_id |-> -1, action_id |-> -1,
   expected_utility |-> -1]

GoalMeta(priority) ==
  [EmptyMeta EXCEPT !.priority = priority, !.status = "active"]

ExecutionMeta(goal_id, action_id, score) ==
  [EmptyMeta EXCEPT !.goal_id = goal_id, !.action_id = action_id,
                    !.expected_utility = score]

(***************************************************************************)
(* Atom(type=, name=, truth_value=, outgoing=, metadata=)                  *)
(***************************************************************************)
Atom(id, type, name, tv, outgoing, metadata, t) ==
  [id |-> id, type |-> type, name |-> name, truth_value |-> tv,
   incoming |-> <<>>, outgoing |-> outgoing, metadata |-> metadata,
   created_at |-> t, updated_at |-> t]

(***************************************************************************)
(* Atom.update_truth_value: weighted average by confidence.  The weights   *)
(* and the old strength are read before either field is assigned.          *)
(***************************************************************************)
\* Faulty variant: the confidence is assigned first and then used as the weight.
update_truth_value_stale(atom, new_strength, new_confidence, t) ==
  LET conf1 == Min(One, atom.truth_value.confidence + new_confidence)
      total == conf1 + new_confidence
  IN  IF atom.truth_value.confidence + new_confidence > 0
      THEN [atom EXCEPT
              !.truth_value = TruthValue(
                 (atom.truth_value.strength * conf1
                    + new_strength * new_confidence) \div total, conf1),
              !.updated_at = t]
      ELSE [atom EXCEPT !.updated_at = t]

\* Faulty variant: the confidence is not capped at 1.0.
update_truth_value_nocap(atom, new_strength, new_confidence, t) ==
  LET total == atom.truth_value.confidence + new_confidence
  IN  IF total > 0
      THEN [atom EXCEPT
              !.truth_value = TruthValue(
                 (atom.truth_value.strength * atom.truth_value.confidence
                    + new_strength * new_confidence) \div total, total),
              !.updated_at = t]
      ELSE [atom EXCEPT !.updated_at = t]

\* Faulty variant: the two strengths are averaged with equal weights.
update_truth_value_plain(atom, new_strength, new_confidence, t) ==
  LET total == atom.truth_value.confidence + new_confidence
  IN  IF total > 0
      THEN [atom EXCEPT
              !.truth_value = TruthValue(
                 (atom.truth_value.strength + new_strength) \div 2,
                 Min(One, total)),
              !.updated_at = t]
      ELSE [atom EXCEPT !.updated_at = t]

\* Faulty variant: the confidence of the new evidence replaces the old one.
update_truth_value_latest(atom, new_strength, new_confidence, t) ==
  LET total == atom.truth_value.confidence + new_confidence
  IN  IF total > 0
      THEN [atom EXCEPT
              !.truth_value = TruthValue(
                 (atom.truth_value.strength * atom.truth_value.confidence
                    + new_strength * new_confidence) \div total,
                 Min(One, new_confidence)),
              !.updated_at = t]
      ELSE [atom EXCEPT !.updated_at = t]

\* Faulty variant: with a total weight of 0 the method returns at once.
update_truth_value_early(atom, new_strength, new_confidence, t) ==
  LET total == atom.truth_value.confidence + new_confidence
  IN  IF total > 0
      THEN [atom EXCEPT
              !.truth_value = TruthValue(
                 (atom.truth_value.strength * atom.truth_value.confidence
                    + new_strength * new_confidence) \div total,
                 Min(One, total)),
              !.updated_at = t]
      ELSE atom

\* Atom.update_truth_value as written.
update_truth_value(atom, new_strength, new_confidence, t) ==
  LET old_tv == atom.truth_value
      weight_old == old_tv.confidence
      weight_new == new_confidence
      total_weight == weight_old + weight_new
  IN  IF total_weight > 0
      THEN [atom EXCEPT
              !.truth_value = TruthValue(
                 (old_tv.strength * weight_old + new_strength * weight_new)
                    \div total_weight,
                 Min(One, total_weight)),
              !.updated_at = t]
      ELSE [atom EXCEPT !.updated_at = t]

(***************************************************************************)
(* Store lookups: `id in self.atoms`, `self.atoms[id]`.                    *)
(***************************************************************************)
Ids(as) == {as[i].id : i \in 1..Len(as)}

Has(as, id) == id \in Ids(as)

IndexOf(as, id) == CHOOSE i \in 1..Len(as) : as[i].id = id

Get(as, id) == as[IndexOf(as, id)]

Contains(seq, x) == \E i \in 1..Len(seq) : seq[i] = x

(***************************************************************************)
(* AtomSpace.add_atom: the dedup scan.  0 when no atom matches, else the   *)
(* index of the first atom with the same type and name.                    *)
(***************************************************************************)
ExistingIndex(as, atom_type, name) ==
  IF \E i \in 1..Len(as) : as[i].type = atom_type /\ as[i].name = name
  THEN CHOOSE i \in 1..Len(as) :
         /\ as[i].type = atom_type /\ as[i].name = name
         /\ \A j \in 1..(i - 1) : ~(as[j].type = atom_type /\ as[j].name = name)
  ELSE 0

(***************************************************************************)
(* AtomSpace.add_atom: `for outgoing_id in atom.outgoing: if outgoing_id   *)
(* in self.atoms: self.atoms[outgoing_id].incoming.append(atom.id)`.       *)
(***************************************************************************)
RECURSIVE AppendIncoming(_, _, _, _)
AppendIncoming(as, outgoing, k, atom_id) ==
  IF k > Len(outgoing) THEN as
  ELSE LET outgoing_id == outgoing[k]
       IN  IF Has(as, outgoing_id)
           THEN LET i == IndexOf(as, outgoing_id)
                IN  AppendIncoming(
                      [as EXCEPT ![i].incoming = Append(@, atom_id)],
                      outgoing, k + 1, atom_id)
           ELSE AppendIncoming(as, outgoing, k + 1, atom_id)

(***************************************************************************)
(* AtomSpace.add_atom.  Result: the store afterwards and the id of the     *)
(* returned atom.  truth_value = NoTV, outgoing = <<>> and                 *)
(* metadata = EmptyMeta are the omitted arguments.                         *)
(***************************************************************************)
\* Faulty variant: no dedup scan, every call creates an atom.
add_atom_nodedup(as, atom_type, name, truth_value, outgoing, metadata, t) ==
  LET id == Len(as) + 1
      tv == IF truth_value # NoTV THEN truth_value ELSE TruthValue(50, 50)
      atom == Atom(id, atom_type, name, tv, outgoing, metadata, t)
  IN  [atoms |-> AppendIncoming(Append(as, atom), atom.outgoing, 1, id),
       ret |-> id]

\* Faulty variant: the merge path also applies the outgoing argument.
add_atom_mergeedges(as, atom_type, name, truth_value, outgoing, metadata, t) ==
  LET e == ExistingIndex(as, atom_type, name)
  IN  IF e # 0
      THEN LET merged ==
                 IF truth_value # NoTV
                 THEN [as EXCEPT ![e] = update_truth_value(
                         @, truth_value.strength, truth_value.confidence, t)]
                 ELSE as
               linked == [merged EXCEPT ![e].outgoing = @ \o outgoing]
           IN  [atoms |-> AppendIncoming(linked, outgoing, 1, as[e].id),
                ret |-> as[e].id]
      ELSE add_atom_nodedup(as, atom_type, name, truth_value, outgoing,
                            metadata, t)

\* Faulty variant: creation does not update the targets' incoming lists.
add_atom_noincoming(as, atom_type, name, truth_value, outgoing, metadata, t) ==
  LET e == ExistingIndex(as, atom_type, name)
  IN  IF e # 0
      THEN [atoms |->
              IF truth_value # NoTV
              THEN [as EXCEPT ![e] = update_truth_value(
                      @, truth_value.strength, truth_value.confidence, t)]
              ELSE as,
            ret |-> as[e].id]
      ELSE LET id == Len(as) + 1
               tv == IF truth_value # NoTV THEN truth_value
                     ELSE TruthValue(50, 50)
           IN  [atoms |-> Append(as, Atom(id, atom_type, name, tv, outgoing,
                                          metadata, t)),
                ret |-> id]

\* AtomSpace.add_atom as written.
add_atom(as, atom_type, name, truth_value, outgoing, metadata, t) ==
  LET e == ExistingIndex(as, atom_type, name)
  IN  IF e # 0
      THEN [atoms |->
              IF truth_value # NoTV
              THEN [as EXCEPT ![e] = update_truth_value(
                      @, truth_value.strength, truth_value.confidence, t)]
              ELSE as,
            ret |-> as[e].id]
      ELSE LET id == Len(as) + 1
               tv == IF truth_value # NoTV THEN truth_value
                     ELSE TruthValue(50, 50)
               atom == Atom(id, atom_type, name, tv, outgoing, metadata, t)
           IN  [atoms |-> AppendIncoming(Append(as, atom), atom.outgoing, 1, id),
                ret |-> id]

(***************************************************************************)
(* AtomSpace.find_atoms.  Each filter is applied only when its argument    *)
(* is truthy (`if atom_type and ...`, `if name and ...`,                   *)
(* `if min_strength and ...`): None, the empty string and 0.0 are falsy.   *)
(* Result: the ids of the matching atoms in store order.                   *)
(***************************************************************************)
Truthy_type(atom_type) == atom_type # NoType

Truthy_name(name) == name # NoName /\ name # <<>>

Truthy_min(min_strength) == min_strength # NoMin /\ min_strength # 0

Skipped(atom, atom_type, name, min_strength) ==
  \/ Truthy_type(atom_type) /\ atom.type # atom_type
  \/ Truthy_name(name) /\ atom.name # name
  \/ Truthy_min(min_strength) /\ atom.truth_value.strength < min_strength

RECURSIVE find_from(_, _, _, _, _)
find_from(as, k, atom_type, name, min_strength) ==
  IF k > Len(as) THEN <<>>
  ELSE IF Skipped(as[k], atom_type, name, min_strength)
       THEN find_from(as, k + 1, atom_type, name, min_strength)
       ELSE <<as[k].id>> \o find_from(as, k + 1, atom_type, name, min_strength)

find_atoms(as, atom_type, name, min_strength) ==
  find_from(as, 1, atom_type, name, min_strength)

(***************************************************************************)
(* AtomSpace.add_belief / add_goal / add_action.  The TruthValue argument  *)
(* is constructed (and validated) before add_atom is entered.              *)
(***************************************************************************)
Raised(as) == [atoms |-> as, ret |-> 0, raised |-> TRUE]

Returned(r) == [atoms |-> r.atoms, ret |-> r.ret, raised |-> FALSE]

\* Faulty variant: the belief atom is registered before the truth value is
\* validated.
add_belief_latecheck(as, belief, strength, confidence, t) ==
  IF TruthValueValid(strength, confidence)
  THEN Returned(add_atom(as, "belief", belief,
                         TruthValue(strength, confidence), <<>>, EmptyMeta, t))
  ELSE Raised(add_atom(as, "belief", belief, NoTV, <<>>, EmptyMeta, t).atoms)

\* AtomSpace.add_belief as written.
add_belief(as, belief, strength, confidence, t) ==
  IF TruthValueValid(strength, confidence)
  THEN Returned(add_atom(as, "belief", belief,
                         TruthValue(strength, confidence), <<>>, EmptyMeta, t))
  ELSE Raised(as)

\* Faulty variant: the goal metadata is not passed on.
add_goal_nometa(as, goal, priority, t) ==
  IF TruthValueValid(priority, One)
  THEN Returned(add_atom(as, "goal", goal, TruthValue(priority, One), <<>>,
                         EmptyMeta, t))
  ELSE Raised(as)

\* AtomSpace.add_goal as written.
add_goal(as, goal, priority, t) ==
  IF TruthValueValid(priority, One)
  THEN Returned(add_atom(as, "goal", goal, TruthValue(priority, One), <<>>,
                         GoalMeta(priority), t))
  ELSE Raised(as)

add_action(as, action, success_prob, t) ==
  IF TruthValueValid(success_prob, 50)
  THEN Returned(add_atom(as, "action", action, TruthValue(success_prob, 50),
                         <<>>, EmptyMeta, t))
  ELSE Raised(as)

(***************************************************************************)
(* AtomSpace.link_atoms.  ret is the returned bool.                        *)
(***************************************************************************)
\* Faulty variant: no membership test before the two appends.
link_atoms_nocheck(as, source_id, target_id) ==
  IF ~Has(as, source_id) \/ ~Has(as, target_id)
  THEN [atoms |-> as, ret |-> FALSE]
  ELSE LET si == IndexOf(as, source_id)
           ti == IndexOf(as, target_id)
           as1 == [as EXCEPT ![si].outgoing = Append(@, target_id)]
       IN  [atoms |-> [as1 EXCEPT ![ti].incoming = Append(@, source_id)],
            ret |-> TRUE]

\* Faulty variant: only the source id is required to be in the store.
link_atoms_dangling(as, source_id, target_id) ==
  IF ~Has(as, source_id)
  THEN [atoms |-> as, ret |-> FALSE]
  ELSE LET si == IndexOf(as, source_id)
       IN  IF ~Contains(as[si].outgoing, target_id)
           THEN [atoms |-> [as EXCEPT ![si].outgoing = Append(@, target_id)],
                 ret |-> Has(as, target_id)]
           ELSE [atoms |-> as, ret |-> Has(as, target_id)]

\* Faulty variant: the new edge is put at the front of both lists.
link_atoms_front(as, source_id, target_id) ==
  IF ~Has(as, source_id) \/ ~Has(as, target_id)
  THEN [atoms |-> as, ret |-> FALSE]
  ELSE LET si == IndexOf(as, source_id)
           ti == IndexOf(as, target_id)
       IN  IF ~Contains(as[si].outgoing, target_id)
           THEN LET as1 == [as EXCEPT ![si].outgoing = <<target_id>> \o @]
                IN  [atoms |-> [as1 EXCEPT ![ti].incoming = <<source_id>> \o @],
                     ret |-> TRUE]
           ELSE [atoms |-> as, ret |-> TRUE]

\* AtomSpace.link_atoms as written.
link_atoms(as, source_id, target_id) ==
  IF ~Has(as, source_id) \/ ~Has(as, target_id)
  THEN [atoms |-> as, ret |-> FALSE]
  ELSE LET si == IndexOf(as, source_id)
           ti == IndexOf(as, target_id)
       IN  IF ~Contains(as[si].outgoing, target_id)
           THEN LET as1 == [as EXCEPT ![si].outgoing = Append(@, target_id)]
                IN  [atoms |-> [as1 EXCEPT ![ti].incoming = Append(@, source_id)],
                     ret |-> TRUE]
           ELSE [atoms |-> as, ret |-> TRUE]

(***************************************************************************)
(* AtomSpace.get_related_atoms: the atoms (here: their ids) listed in      *)
(* incoming / outgoing that are in the store.                              *)
(***************************************************************************)
RECURSIVE InStore(_, _, _)
InStore(as, seq, k) ==
  IF k > Len(seq) THEN <<>>
  ELSE IF Has(as, seq[k]) THEN <<seq[k]>> \o InStore(as, seq, k + 1)
       ELSE InStore(as, seq, k + 1)

get_related_atoms(as, atom_id) ==
  IF ~Has(as, atom_id)
  THEN [incoming |-> <<>>, outgoing |-> <<>>]
  ELSE LET atom == Get(as, atom_id)
       IN  [incoming |-> InStore(as, atom.incoming, 1),
            outgoing |-> InStore(as, atom.outgoing, 1)]

(***************************************************************************)
(* str.lower() and str.split() on a single symbol.                         *)
(***************************************************************************)
Lower(ch) ==
  CASE ch = "A" -> "a"
    [] ch = "B" -> "b"
    [] OTHER -> ch

IsSpace(ch) == ch = " "

(***************************************************************************)
(* set(name.lower().split()): the lower-cased whitespace-separated words.  *)
(***************************************************************************)
RECURSIVE WordsFrom(_, _, _)
WordsFrom(name, k, cur) ==
  LET done == IF cur = <<>> THEN {} ELSE {cur}
  IN  IF k > Len(name) THEN done
      ELSE IF IsSpace(name[k]) THEN done \cup WordsFrom(name, k + 1, <<>>)
           ELSE WordsFrom(name, k + 1, Append(cur, Lower(name[k])))

Words(name) == WordsFrom(name, 1, <<>>)

(***************************************************************************)
(* ReasoningProcess._is_relevant / ActionProcess._is_relevant              *)
(***************************************************************************)
\* Faulty variant: the names are split without being lower-cased.
RECURSIVE CasedWordsFrom(_, _, _)
CasedWordsFrom(name, k, cur) ==
  LET done == IF cur = <<>> THEN {} ELSE {cur}
  IN  IF k > Len(name) THEN done
      ELSE IF IsSpace(name[k]) THEN done \cup CasedWordsFrom(name, k + 1, <<>>)
           ELSE CasedWordsFrom(name, k + 1, Append(cur, name[k]))

is_relevant_cased(goal_name, other_name) ==
  CasedWordsFrom(goal_name, 1, <<>>) \cap CasedWordsFrom(other_name, 1, <<>>) # {}

\* _is_relevant as written.
is_relevant(goal_name, other_name) ==
  Words(goal_name) \cap Words(other_name) # {}

(***************************************************************************)
(* PerceptionProcess.process.  An observation is a dict                    *)
(* {concept?, strength?, confidence?} or any other value, taken by str().  *)
(* Result: the store, the perceived ids so far, and whether add_belief     *)
(* raised (the loop stops there).                                          *)
(***************************************************************************)
ObsDict(concept, strength, confidence) ==
  [isdict |-> TRUE, concept |-> concept, strength |-> strength,
   confidence |-> confidence]

ObsText(text) ==
  [isdict |-> FALSE, concept |-> text, strength |-> -1, confidence |-> -1]

concept_name(observation) ==
  IF observation.isdict /\ observation.concept = NoName
  THEN <<"u", "n", "k", "n", "o", "w", "n">>
  ELSE observation.concept

\* Faulty variant: the default strength of add_belief (0.8) instead of 0.7.
obs_strength_addbelief(observation) ==
  IF observation.isdict /\ observation.strength # -1
  THEN observation.strength ELSE 80

\* observation.get("strength", 0.7) as written.
obs_strength(observation) ==
  IF observation.isdict /\ observation.strength # -1
  THEN observation.strength ELSE 70

obs_confidence(observation) ==
  IF observation.isdict /\ observation.confidence # -1
  THEN observation.confidence ELSE 80

RECURSIVE perception_loop(_, _, _, _, _)
perception_step(r, observations, k, perceived_concepts, t) ==
  IF r.raised
  THEN [atoms |-> r.atoms, perceived_concepts |-> perceived_concepts,
        raised |-> TRUE]
  ELSE perception_loop(r.atoms, observations, k + 1,
                       Append(perceived_concepts, r.ret), t)

perception_loop(as, observations, k, perceived_concepts, t) ==
  IF k > Len(observations)
  THEN [atoms |-> as, perceived_concepts |-> perceived_concepts,
        raised |-> FALSE]
  ELSE perception_step(
         add_belief(as, <<"perceived:">> \o concept_name(observations[k]),
                    obs_strength(observations[k]),
                    obs_confidence(observations[k]), t),
         observations, k, perceived_concepts, t)

\* Faulty variant: a pass that fails restores the store it started from.
restored(as, r) == IF r.raised THEN [r EXCEPT !.atoms = as] ELSE r

perception_process_restoring(as, observations, t) ==
  restored(as, perception_loop(as, observations, 1, <<>>, t))

\* PerceptionProcess.process as written.
perception_process(as, observations, t) ==
  perception_loop(as, observations, 1, <<>>, t)

(***************************************************************************)
(* ReasoningProcess.process.  beliefs and goals are found once, before     *)
(* the loops; the atoms themselves are read when the loop reaches them.    *)
(***************************************************************************)
ImplicationName(belief_name, goal_name) ==
  belief_name \o <<" ", "=>", " ">> \o goal_name

\* Faulty variant: the implication links every atom of the store.
add_implication_all(as, belief, goal, t) ==
  add_atom(as, "implication", ImplicationName(belief.name, goal.name),
           TruthValue(Min(belief.truth_value.strength, 80),
                      (belief.truth_value.confidence * 8) \div 10),
           [i \in 1..Len(as) |-> as[i].id], EmptyMeta, t)

add_implication(as, belief, goal, t) ==
  add_atom(as, "implication", ImplicationName(belief.name, goal.name),
           TruthValue(Min(belief.truth_value.strength, 80),
                      (belief.truth_value.confidence * 8) \div 10),
           <<belief.id, goal.id>>, EmptyMeta, t)

RECURSIVE reasoning_loop(_, _, _, _, _, _, _)
reasoning_step(r, goals, beliefs, gi, bi, inferences, t) ==
  reasoning_loop(r.atoms, goals, beliefs, gi, bi + 1,
                 Append(inferences, r.ret), t)

reasoning_pair(as, goal, belief, goals, beliefs, gi, bi, inferences, t) ==
  IF is_relevant(goal.name, belief.name)
  THEN reasoning_step(add_implication(as, belief, goal, t), goals, beliefs,
                      gi, bi, inferences, t)
  ELSE reasoning_loop(as, goals, beliefs, gi, bi + 1, inferences, t)

reasoning_loop(as, goals, beliefs, gi, bi, inferences, t) ==
  IF gi > Len(goals) THEN [atoms |-> as, inferences |-> inferences]
  ELSE IF Get(as, goals[gi]).metadata.status # "active" \/ bi > Len(beliefs)
       THEN reasoning_loop(as, goals, beliefs, gi + 1, 1, inferences, t)
       ELSE reasoning_pair(as, Get(as, goals[gi]), Get(as, beliefs[bi]),
                           goals, beliefs, gi, bi, inferences, t)

\* Faulty variant: goals_considered counts the active goals only.
reasoning_result_active(r, beliefs, goals) ==
  [atoms |-> r.atoms, inferences |-> r.inferences,
   beliefs_considered |-> Len(beliefs),
   goals_considered |->
     Cardinality({k \in 1..Len(goals) :
                    Get(r.atoms, goals[k]).metadata.status = "active"})]

\* The dict returned by ReasoningProcess.process as written.
reasoning_result(r, beliefs, goals) ==
  [atoms |-> r.atoms, inferences |-> r.inferences,
   beliefs_considered |-> Len(beliefs), goals_considered |-> Len(goals)]

reasoning_scan(as, beliefs, goals, t) ==
  reasoning_result(reasoning_loop(as, goals, beliefs, 1, 1, <<>>, t),
                   beliefs, goals)

\* Faulty variant: the beliefs are not filtered by the threshold.
reasoning_process_nothreshold(as, inference_threshold, t) ==
  reasoning_scan(as, find_atoms(as, "belief", NoName, NoMin),
                 find_atoms(as, "goal", NoName, NoMin), t)

\* ReasoningProcess.process as written.
reasoning_process(as, inference_threshold, t) ==
  reasoning_scan(as, find_atoms(as, "belief", NoName, inference_threshold),
                 find_atoms(as, "goal", NoName, NoMin), t)

(***************************************************************************)
(* ActionProcess.process: the active goals, sorted by strength, highest    *)
(* first.  list.sort(reverse=True) is stable: equal strengths keep their   *)
(* store order.                                                            *)
(***************************************************************************)
\* Faulty variant: the goals are not filtered by their status.
ActiveOnly_all(as, goals, k) == goals

\* [g for g in goals if g.metadata.get("status") == "active"] as written.
RECURSIVE ActiveOnly(_, _, _)
ActiveOnly(as, goals, k) ==
  IF k > Len(goals) THEN <<>>
  ELSE IF Get(as, goals[k]).metadata.status = "active"
       THEN <<goals[k]>> \o ActiveOnly(as, goals, k + 1)
       ELSE ActiveOnly(as, goals, k + 1)

Strength(as, id) == Get(as, id).truth_value.strength

Without(seq, i) == SubSeq(seq, 1, i - 1) \o SubSeq(seq, i + 1, Len(seq))

RECURSIVE SortByStrengthDesc(_, _)
SortByStrengthDesc(as, ids) ==
  IF Len(ids) = 0 THEN <<>>
  ELSE LET m == CHOOSE i \in 1..Len(ids) :
                  /\ \A j \in 1..Len(ids) :
                       Strength(as, ids[j]) <= Strength(as, ids[i])
                  /\ \A j \in 1..(i - 1) :
                       Strength(as, ids[j]) < Strength(as, ids[i])
       IN  <<ids[m]>> \o SortByStrengthDesc(as, Without(ids, m))

\* Faulty variant: every active goal is considered.
Top3_all(seq) == seq

\* active_goals[:3]
Top3(seq) == SubSeq(seq, 1, Min(3, Len(seq)))

(***************************************************************************)
(* ActionProcess._action_helps_goal and _calculate_action_score            *)
(***************************************************************************)
action_helps_goal(as, action, goal) ==
  LET implications == find_atoms(as, "implication", NoName, NoMin)
  IN  \/ \E k \in 1..Len(implications) :
           /\ Contains(Get(as, implications[k]).outgoing, action.id)
           /\ Contains(Get(as, implications[k]).outgoing, goal.id)
      \/ is_relevant(goal.name, action.name)

calculate_action_score(action, goal) ==
  (action.truth_value.strength + goal.truth_value.strength) \div 2

(***************************************************************************)
(* ActionProcess.process: the scan of the actions for one goal             *)
(* (best.best_action is an action id, 0 for None), then the loop over the  *)
(* goals that creates the execution atoms.                                 *)
(***************************************************************************)
\* Faulty variant: a candidate with an equal score replaces the best so far.
best_action_step_last(action, score, goal, as, best, action_threshold) ==
  IF /\ action_helps_goal(as, action, goal)
     /\ score >= best.best_score /\ score > 0
     /\ score >= action_threshold
  THEN [best_action |-> action.id, best_score |-> score]
  ELSE best

\* The body of `for action in actions:` as written.
best_action_step(action, score, goal, as, best, action_threshold) ==
  IF /\ action_helps_goal(as, action, goal)
     /\ score > best.best_score
     /\ score >= action_threshold
  THEN [best_action |-> action.id, best_score |-> score]
  ELSE best

RECURSIVE best_action_loop(_, _, _, _, _, _)
best_action_loop(as, actions, k, goal, best, action_threshold) ==
  IF k > Len(actions) THEN best
  ELSE best_action_loop(
         as, actions, k + 1, goal,
         best_action_step(Get(as, actions[k]),
                          calculate_action_score(Get(as, actions[k]), goal),
                          goal, as, best, action_threshold),
         action_threshold)

ExecutionName(action_name) == <<"execute:">> \o action_name

\* Faulty variant: every selection gets an execution atom of its own.
add_execution_fresh(as, best_action, goal, best_score, t) ==
  add_atom_nodedup(as, "execution", ExecutionName(best_action.name),
                   TruthValue(best_score, 80), <<best_action.id, goal.id>>,
                   ExecutionMeta(goal.id, best_action.id, best_score), t)

add_execution(as, best_action, goal, best_score, t) ==
  add_atom(as, "execution", ExecutionName(best_action.name),
           TruthValue(best_score, 80), <<best_action.id, goal.id>>,
           ExecutionMeta(goal.id, best_action.id, best_score), t)

Selection(execution_id, best_action, goal, best_score) ==
  [execution_id |-> execution_id, action |-> best_action.name,
   goal |-> goal.name, score |-> best_score]

RECURSIVE action_loop(_, _, _, _, _, _, _)
action_selected(r, best_action, goal, best_score, goals, actions, gi, selected_actions, action_threshold, t) ==
  action_loop(r.atoms, goals, actions, gi + 1,
              Append(selected_actions,
                     Selection(r.ret, best_action, goal, best_score)),
              action_threshold, t)

action_step(as, goal, best, goals, actions, gi, selected_actions, action_threshold, t) ==
  IF best.best_action # 0
  THEN action_selected(
         add_execution(as, Get(as, best.best_action), goal, best.best_score, t),
         Get(as, best.best_action), goal, best.best_score, goals, actions, gi,
         selected_actions, action_threshold, t)
  ELSE action_loop(as, goals, actions, gi + 1, selected_actions,
                   action_threshold, t)

action_loop(as, goals, actions, gi, selected_actions, action_threshold, t) ==
  IF gi > Len(goals)
  THEN [atoms |-> as, selected_actions |-> selected_actions]
  ELSE action_step(
         as, Get(as, goals[gi]),
         best_action_loop(as, actions, 1, Get(as, goals[gi]),
                          [best_action |-> 0, best_score |-> 0],
                          action_threshold),
         goals, actions, gi, selected_actions, action_threshold, t)

action_result(r) ==
  [atoms |-> r.atoms, selected_actions |-> r.selected_actions,
   goals_addressed |-> Len(r.selected_actions)]

active_goals(as, goals) ==
  SortByStrengthDesc(as, ActiveOnly(as, goals, 1))

action_process(as, action_threshold, t) ==
  action_result(
    action_loop(as, Top3(active_goals(as, find_atoms(as, "goal", NoName, NoMin))),
                find_atoms(as, "action", NoName, NoMin), 1, <<>>,
                action_threshold, t))

(***************************************************************************)
(* CognitiveAgent: the stage list.  A stage is its kind (the class the     *)
(* isinstance dispatch looks for, which is also its default `name`) and    *)
(* its threshold (inference_threshold / action_threshold; perception has   *)
(* none).                                                                  *)
(***************************************************************************)
PerceptionProcess == [kind |-> "perception", threshold |-> 0]

ReasoningProcess(inference_threshold) ==
  [kind |-> "reasoning", threshold |-> inference_threshold]

ActionProcess(action_threshold) ==
  [kind |-> "action", threshold |-> action_threshold]

DefaultProcesses ==
  <<PerceptionProcess, ReasoningProcess(60), ActionProcess(50)>>

(***************************************************************************)
(* CognitiveAgent.__init__: `if not self.processes:` installs the defaults *)
(* (an omitted list is the empty list of default_factory).                 *)
(***************************************************************************)
CognitiveAgent_init(given) ==
  IF given = <<>> THEN DefaultProcesses ELSE given

(***************************************************************************)
(* next((p for p in self.processes if isinstance(p, Kind)), None):         *)
(* index of the first stage of that kind, 0 for None.                      *)
(***************************************************************************)
\* Faulty variant: the last stage of the kind instead of the first.
LastProcess(procs, kind) ==
  IF \E i \in 1..Len(procs) : procs[i].kind = kind
  THEN CHOOSE i \in 1..Len(procs) :
         /\ procs[i].kind = kind
         /\ \A j \in (i + 1)..Len(procs) : procs[j].kind # kind
  ELSE 0

\* next(p for p in self.processes if isinstance(p, Kind)) as written.
FirstProcess(procs, kind) ==
  IF \E i \in 1..Len(procs) : procs[i].kind = kind
  THEN CHOOSE i \in 1..Len(procs) :
         /\ procs[i].kind = kind
         /\ \A j \in 1..(i - 1) : procs[j].kind # kind
  ELSE 0

(***************************************************************************)
(* The dict a stage returns.  present = FALSE: the key is not in           *)
(* cycle_results; error = TRUE: {"error": "No <kind> process available"}.  *)
(***************************************************************************)
NoResult ==
  [present |-> FALSE, error |-> FALSE, ids |-> <<>>, count |-> 0,
   beliefs_considered |-> 0, goals_considered |-> 0,
   selected_actions |-> <<>>]

ErrorResult == [NoResult EXCEPT !.present = TRUE, !.error = TRUE]

(***************************************************************************)
(* CognitiveAgent.perceive / reason / plan_actions                         *)
(***************************************************************************)
perceive_result(r) ==
  [atoms |-> r.atoms, raised |-> r.raised,
   result |-> IF r.raised THEN NoResult
              ELSE [NoResult EXCEPT !.present = TRUE,
                                    !.ids = r.perceived_concepts,
                                    !.count = Len(r.perceived_concepts)]]

perceive(as, procs, observations, t) ==
  IF FirstProcess(procs, "perception") = 0
  THEN [atoms |-> as, raised |-> FALSE, result |-> ErrorResult]
  ELSE perceive_result(perception_process(as, observations, t))

reason_result(r) ==
  [atoms |-> r.atoms,
   result |-> [NoResult EXCEPT
                 !.present = TRUE, !.ids = r.inferences,
                 !.beliefs_considered = r.beliefs_considered,
                 !.goals_considered = r.goals_considered]]

reason(as, procs, t) ==
  IF FirstProcess(procs, "reasoning") = 0
  THEN [atoms |-> as, result |-> ErrorResult]
  ELSE reason_result(
         reasoning_process(
           as, procs[FirstProcess(procs, "reasoning")].threshold, t))

plan_actions_result(r) ==
  [atoms |-> r.atoms,
   result |-> [NoResult EXCEPT
                 !.present = TRUE, !.selected_actions = r.selected_actions,
                 !.count = r.goals_addressed]]

plan_actions(as, procs, t) ==
  IF FirstProcess(procs, "action") = 0
  THEN [atoms |-> as, result |-> ErrorResult]
  ELSE plan_actions_result(
         action_process(as, procs[FirstProcess(procs, "action")].threshold, t))

(***************************************************************************)
(* CognitiveAgent.cognitive_cycle.  supplied = FALSE: observations=None.   *)
(* `if observations:` is false for None and for the empty list.  An        *)
(* exception raised while perceiving leaves the call there.                *)
(***************************************************************************)
cycle_results(p, r, a) ==
  [atoms |-> a.atoms, raised |-> FALSE, perception |-> p.result,
   reasoning |-> r.result, action_planning |-> a.result]

cycle_plan(p, r, procs, t) ==
  cycle_results(p, r, plan_actions(r.atoms, procs, t))

cycle_reason(p, procs, t) ==
  IF p.raised
  THEN [atoms |-> p.atoms, raised |-> TRUE, perception |-> NoResult,
        reasoning |-> NoResult, action_planning |-> NoResult]
  ELSE cycle_plan(p, reason(p.atoms, procs, t), procs, t)

\* Faulty variant: reasoning runs first, on the store as it was before the
\* observations are perceived.
cycle_late_plan(p, r, procs, t) ==
  IF p.raised
  THEN [atoms |-> p.atoms, raised |-> TRUE, perception |-> NoResult,
        reasoning |-> NoResult, action_planning |-> NoResult]
  ELSE cycle_results(p, r, plan_actions(p.atoms, procs, t))

cycle_late_perceive(r, procs, supplied, observations, t) ==
  cycle_late_plan(IF supplied /\ observations # <<>>
                  THEN perceive(r.atoms, procs, observations, t)
                  ELSE [atoms |-> r.atoms, raised |-> FALSE, result |-> NoResult],
                  r, procs, t)

cognitive_cycle_reasonfirst(as, procs, supplied, observations, t) ==
  cycle_late_perceive(reason(as, procs, t), procs, supplied, observations, t)

\* CognitiveAgent.cognitive_cycle as written.
cognitive_cycle(as, procs, supplied, observations, t) ==
  cycle_reason(IF supplied /\ observations # <<>>
               THEN perceive(as, procs, observations, t)
               ELSE [atoms |-> as, raised |-> FALSE, result |-> NoResult],
               procs, t)

(***************************************************************************)
(* CognitiveAgent.add_goal / add_belief / add_action: the store's          *)
(* operation, returning the id of the atom.                                *)
(***************************************************************************)
agent_add_goal(as, goal, priority, t) == add_goal(as, goal, priority, t)

agent_add_belief(as, belief, strength, confidence, t) ==
  add_belief(as, belief, strength, confidence, t)

agent_add_action(as, action, success_prob, t) ==
  add_action(as, action, success_prob, t)

(***************************************************************************)
(* CognitiveAgent.get_knowledge_summary.  beliefs is counted by            *)
(* find_atoms (0 for an empty store), the other three by scanning          *)
(* atoms.values() for the type's value.                                    *)
(***************************************************************************)
CountType(as, value) == Cardinality({i \in 1..Len(as) : as[i].type = value})

NoSummary ==
  [total_atoms |-> -1, beliefs |-> -1, goals |-> -1, actions |-> -1,
   implications |-> -1]

\* Faulty variant: the goals and the actions are counted under each other's key.
get_knowledge_summary_swapped(as) ==
  [total_atoms |-> Len(as),
   beliefs |-> IF Len(as) # 0
               THEN Len(find_atoms(as, "belief", NoName, NoMin)) ELSE 0,
   goals |-> CountType(as, "action"),
   actions |-> CountType(as, "goal"),
   implications |-> CountType(as, "implication")]

\* CognitiveAgent.get_knowledge_summary as written.
get_knowledge_summary(as) ==
  [total_atoms |-> Len(as),
   beliefs |-> IF Len(as) # 0
               THEN Len(find_atoms(as, "belief", NoName, NoMin)) ELSE 0,
   goals |-> CountType(as, "goal"),
   actions |-> CountType(as, "action"),
   implications |-> CountType(as, "implication")]

(***************************************************************************)
(* CognitiveAgent.export_knowledge and AtomSpace.to_dict.                  *)
(* atom.model_dump(mode="json") builds a new dict from the atom's fields:  *)
(* the enum type becomes its value, the datetimes their ISO-8601 strings.  *)
(* A stage's name is the default name of its class, which is its kind.     *)
(* The "atoms" dict keeps insertion order: a sequence of key/value pairs.  *)
(***************************************************************************)
AgentName == "assistant"

StoreName == "agent_memory"

\* Faulty variant: incoming is left out of the dump (an empty list).
model_dump_noincoming(atom) ==
  [id |-> atom.id, type |-> atom.type, name |-> atom.name,
   truth_value |-> [strength |-> atom.truth_value.strength,
                    confidence |-> atom.truth_value.confidence],
   incoming |-> <<>>, outgoing |-> atom.outgoing,
   metadata |-> atom.metadata,
   created_at |-> <<"iso", atom.created_at>>,
   updated_at |-> <<"iso", atom.updated_at>>]

\* atom.model_dump(mode="json")
model_dump(atom) ==
  [id |-> atom.id, type |-> atom.type, name |-> atom.name,
   truth_value |-> [strength |-> atom.truth_value.strength,
                    confidence |-> atom.truth_value.confidence],
   incoming |-> atom.incoming, outgoing |-> atom.outgoing,
   metadata |-> atom.metadata,
   created_at |-> <<"iso", atom.created_at>>,
   updated_at |-> <<"iso", atom.updated_at>>]

to_dict(as) ==
  [name |-> StoreName,
   atoms |-> [i \in 1..Len(as) |-> [key |-> as[i].id, value |-> model_dump(as[i])]]]

NoExport ==
  [agent |-> "None", atomspace |-> [name |-> "None", atoms |-> <<>>],
   processes |-> <<>>]

export_knowledge(as, procs) ==
  [agent |-> AgentName,
   atomspace |-> to_dict(as),
   processes |-> [i \in 1..Len(procs) |-> procs[i].kind]]

(***************************************************************************)
(* The last call made by the caller: its arguments and what it returned.   *)
(* prev is the store as it was when that call was entered.                 *)
(***************************************************************************)
NoCall ==
  [op |-> "none", atom_type |-> NoType, name |-> NoName,
   truth_value |-> NoTV, outgoing |-> <<>>, metadata |-> EmptyMeta,
   source_id |-> 0, target_id |-> 0, min_strength |-> NoMin,
   supplied |-> FALSE, observations |-> <<>>,
   raised |-> FALSE, ret |-> 0, ok |-> FALSE, ids |-> <<>>,
   related |-> [incoming |-> <<>>, outgoing |-> <<>>],
   perception |-> NoResult, reasoning |-> NoResult,
   action_planning |-> NoResult,
   given |-> <<>>, threshold |-> -1, summary |-> NoSummary,
   exported |-> NoExport]

(***************************************************************************)
(* Inputs the caller chooses from.                                         *)
(***************************************************************************)
NameA == <<"a">>

NameBA == <<"b", " ", "a">>

Names == {NameA, NameBA}

DoneMeta == [EmptyMeta EXCEPT !.status = "done"]

AddAtomArgs ==
  {[atom_type |-> "concept", name |-> NameA, truth_value |-> NoTV,
    metadata |-> EmptyMeta],
   [atom_type |-> "concept", name |-> NameA,
    truth_value |-> TruthValue(90, 80), metadata |-> DoneMeta],
   [atom_type |-> "goal", name |-> NameBA,
    truth_value |-> TruthValue(30, 0), metadata |-> EmptyMeta],
   [atom_type |-> "goal", name |-> NameBA,
    truth_value |-> TruthValue(100, 0), metadata |-> DoneMeta]}

OutgoingLists(as) ==
  IF Has(as, 1) THEN {<<>>, <<1>>, <<1, 0, 1>>} ELSE {<<>>, <<0>>}

BeliefArgs ==
  {[name |-> NameA, strength |-> 90, confidence |-> 80],
   [name |-> NameA, strength |-> 30, confidence |-> 0],
   [name |-> NameBA, strength |-> 60, confidence |-> 70],
   [name |-> NameA, strength |-> 150, confidence |-> 50],
   [name |-> NameBA, strength |-> 50, confidence |-> -10]}

GoalArgs ==
  {[name |-> NameA, priority |-> 90],
   [name |-> NameA, priority |-> 50],
   [name |-> NameBA, priority |-> 50],
   [name |-> NameBA, priority |-> -10]}

ActionArgs ==
  {[name |-> NameA, success_prob |-> 70],
   [name |-> NameBA, success_prob |-> 30],
   [name |-> NameA, success_prob |-> 110]}

Observations ==
  {<<ObsText(NameBA)>>,
   <<ObsDict(NameBA, 90, -1), ObsDict(NameBA, 30, 50)>>,
   <<ObsDict(NameA, 90, -1), ObsDict(NameA, 30, 120), ObsText(NameBA)>>}

LinkIds == 0..2

FindTypes == {NoType, "goal"}

FindNames == {NoName, <<>>, NameA}

FindStrengths == {NoMin, 0, 60}

(***************************************************************************)
(* A call takes one tick of the clock.                                     *)
(***************************************************************************)
Mutate(call, as) ==
  /\ now < MaxTime
  /\ atoms' = as
  /\ prev' = atoms
  /\ last' = call
  /\ now' = now + 1
  /\ UNCHANGED <<processes, threads>>

Query(call) == Mutate(call, atoms)

AddAtom ==
  \E a \in AddAtomArgs, outgoing \in OutgoingLists(atoms) :
    LET r == add_atom(atoms, a.atom_type, a.name, a.truth_value, outgoing,
                      a.metadata, now + 1)
    IN  Mutate([NoCall EXCEPT !.op = "add_atom", !.atom_type = a.atom_type,
                  !.name = a.name, !.truth_value = a.truth_value,
                  !.outgoing = outgoing, !.metadata = a.metadata,
                  !.ret = r.ret],
               r.atoms)

AddBelief ==
  \E a \in BeliefArgs :
    LET r == add_belief(atoms, a.name, a.strength, a.confidence, now + 1)
    IN  Mutate([NoCall EXCEPT !.op = "add_belief", !.atom_type = "belief",
                  !.name = a.name,
                  !.truth_value = TruthValue(a.strength, a.confidence),
                  !.raised = r.raised, !.ret = r.ret],
               r.atoms)

AddGoal ==
  \E a \in GoalArgs :
    LET r == add_goal(atoms, a.name, a.priority, now + 1)
    IN  Mutate([NoCall EXCEPT !.op = "add_goal", !.atom_type = "goal",
                  !.name = a.name, !.truth_value = TruthValue(a.priority, One),
                  !.metadata = GoalMeta(a.priority),
                  !.raised = r.raised, !.ret = r.ret],
               r.atoms)

AddAction ==
  \E a \in ActionArgs :
    LET r == add_action(atoms, a.name, a.success_prob, now + 1)
    IN  Mutate([NoCall EXCEPT !.op = "add_action", !.atom_type = "action",
                  !.name = a.name,
                  !.truth_value = TruthValue(a.success_prob, 50),
                  !.raised = r.raised, !.ret = r.ret],
               r.atoms)

LinkAtoms ==
  \E source_id \in LinkIds, target_id \in LinkIds :
    LET r == link_atoms(atoms, source_id, target_id)
    IN  Mutate([NoCall EXCEPT !.op = "link_atoms", !.source_id = source_id,
                  !.target_id = target_id, !.ok = r.ret],
               r.atoms)

FindAtoms ==
  \E atom_type \in FindTypes, name \in FindNames,
     min_strength \in FindStrengths :
    Query([NoCall EXCEPT !.op = "find_atoms", !.atom_type = atom_type,
             !.name = name, !.min_strength = min_strength,
             !.ids = find_atoms(atoms, atom_type, name, min_strength)])

GetRelatedAtoms ==
  \E atom_id \in LinkIds :
    Query([NoCall EXCEPT !.op = "get_related_atoms", !.source_id = atom_id,
             !.related = get_related_atoms(atoms, atom_id)])

Perceive ==
  \E observations \in Observations :
    LET r == perceive(atoms, processes, observations, now + 1)
    IN  Mutate([NoCall EXCEPT !.op = "perceive", !.supplied = TRUE,
                  !.observations = observations, !.raised = r.raised,
                  !.perception = r.result],
               r.atoms)

Reason ==
  LET r == reason(atoms, processes, now + 1)
  IN  Mutate([NoCall EXCEPT !.op = "reason", !.reasoning = r.result], r.atoms)

PlanActions ==
  LET r == plan_actions(atoms, processes, now + 1)
  IN  Mutate([NoCall EXCEPT !.op = "plan_actions",
                !.action_planning = r.result],
             r.atoms)

CognitiveCycle ==
  \E supplied \in BOOLEAN :
    \E observations \in IF supplied THEN Observations \cup {<<>>} ELSE {<<>>} :
      LET r == cognitive_cycle(atoms, processes, supplied, observations,
                               now + 1)
      IN  Mutate([NoCall EXCEPT !.op = "cognitive_cycle",
                    !.supplied = supplied, !.observations = observations,
                    !.raised = r.raised, !.perception = r.perception,
                    !.reasoning = r.reasoning,
                    !.action_planning = r.action_planning],
                 r.atoms)

(***************************************************************************)
(* CognitiveAgent(name=...): an empty store named "agent_memory" and the   *)
(* default stages.                                                         *)
(***************************************************************************)
Init ==
  /\ atoms = <<>>
  /\ processes = CognitiveAgent_init(<<>>)
  /\ now = 0
  /\ prev = <<>>
  /\ last = NoCall
  /\ threads = <<>>

(***************************************************************************)
(* Spec: a single caller mutating the store through the AtomSpace and      *)
(* CognitiveAgent operations.                                              *)
(***************************************************************************)
Next ==
  \/ AddAtom
  \/ AddBelief
  \/ AddGoal
  \/ AddAction
  \/ LinkAtoms
  \/ Perceive
  \/ Reason
  \/ PlanActions
  \/ CognitiveCycle

Spec == Init /\ [][Next]_vars

(***************************************************************************)
(* SpecQuery: a single caller building a store and querying it.            *)
(***************************************************************************)
NextQuery ==
  \/ AddAtom
  \/ AddBelief
  \/ LinkAtoms
  \/ FindAtoms
  \/ GetRelatedAtoms

SpecQuery == Init /\ [][NextQuery]_vars

(***************************************************************************)
(* SpecStages: a caller who fills the agent's store through the agent,     *)
(* edits the status of goals, and runs the reasoning and action stages     *)
(* on the store with thresholds of their choice                            *)
(* (ReasoningProcess(inference_threshold=...).process(atomspace, {})).     *)
(***************************************************************************)
MaxCalls == 4

NameB == <<"B">>

AgentGoalArgs ==
  {[name |-> NameA, priority |-> 90],
   [name |-> NameBA, priority |-> 0]}

AgentBeliefArgs ==
  {[name |-> NameB, strength |-> 60, confidence |-> 70],
   [name |-> NameA, strength |-> 90, confidence |-> 80]}

AgentActionArgs ==
  {[name |-> NameA, success_prob |-> 70],
   [name |-> NameB, success_prob |-> 0]}

ImplicationOutgoing(as) ==
  IF Has(as, 1) /\ Has(as, 2) THEN {<<>>, <<2, 1>>} ELSE {<<>>}

InferenceThresholds == {60, 80}

ActionThresholds == {0, 50}

Statuses == {"active", "completed"}

Step(call, as) ==
  /\ now < MaxCalls
  /\ atoms' = as
  /\ prev' = atoms
  /\ last' = call
  /\ now' = now + 1
  /\ UNCHANGED <<processes, threads>>

AgentAddGoal ==
  \E a \in AgentGoalArgs :
    LET r == agent_add_goal(atoms, a.name, a.priority, now + 1)
    IN  Step([NoCall EXCEPT !.op = "add_goal", !.atom_type = "goal",
                !.name = a.name, !.truth_value = TruthValue(a.priority, One),
                !.metadata = GoalMeta(a.priority),
                !.raised = r.raised, !.ret = r.ret],
             r.atoms)

AgentAddBelief ==
  \E a \in AgentBeliefArgs :
    LET r == agent_add_belief(atoms, a.name, a.strength, a.confidence, now + 1)
    IN  Step([NoCall EXCEPT !.op = "add_belief", !.atom_type = "belief",
                !.name = a.name,
                !.truth_value = TruthValue(a.strength, a.confidence),
                !.raised = r.raised, !.ret = r.ret],
             r.atoms)

AgentAddAction ==
  \E a \in AgentActionArgs :
    LET r == agent_add_action(atoms, a.name, a.success_prob, now + 1)
    IN  Step([NoCall EXCEPT !.op = "add_action", !.atom_type = "action",
                !.name = a.name,
                !.truth_value = TruthValue(a.success_prob, 50),
                !.raised = r.raised, !.ret = r.ret],
             r.atoms)

\* agent.atomspace.add_atom(AtomType.IMPLICATION, "B => b a", outgoing=...)
AddImplication ==
  \E outgoing \in ImplicationOutgoing(atoms) :
    LET r == add_atom(atoms, "implication", ImplicationName(NameB, NameBA),
                      NoTV, outgoing, EmptyMeta, now + 1)
    IN  Step([NoCall EXCEPT !.op = "add_atom", !.atom_type = "implication",
                !.name = ImplicationName(NameB, NameBA),
                !.outgoing = outgoing, !.ret = r.ret],
             r.atoms)

\* goal.metadata["status"] = status, written by the caller on a goal atom.
\* No store operation is called and no timestamp is read.
SetStatus ==
  \E i \in 1..Len(atoms), status \in Statuses :
    /\ now < MaxCalls
    /\ atoms[i].type = "goal"
    /\ atoms[i].metadata.status # status
    /\ atoms' = [atoms EXCEPT ![i].metadata.status = status]
    /\ prev' = atoms
    /\ last' = [NoCall EXCEPT !.op = "set_status", !.atom_type = "goal",
                  !.name = atoms[i].name, !.source_id = atoms[i].id]
    /\ UNCHANGED <<processes, now, threads>>

ReasoningPass ==
  \E th \in InferenceThresholds :
    LET r == reason_result(reasoning_process(atoms, th, now + 1))
    IN  Step([NoCall EXCEPT !.op = "reasoning_pass", !.threshold = th,
                !.reasoning = r.result],
             r.atoms)

ActionPass ==
  \E th \in ActionThresholds :
    LET r == plan_actions_result(action_process(atoms, th, now + 1))
    IN  Step([NoCall EXCEPT !.op = "action_pass", !.threshold = th,
                !.action_planning = r.result],
             r.atoms)

NextStages ==
  \/ AgentAddGoal
  \/ AgentAddBelief
  \/ AgentAddAction
  \/ AddImplication
  \/ SetStatus
  \/ ReasoningPass
  \/ ActionPass

SpecStages == Init /\ [][NextStages]_vars

(***************************************************************************)
(* SpecAgent: agents constructed with and without a stage list, driven     *)
(* through the agent's operations; the perception stage is also run        *)
(* directly on the agent's store.                                          *)
(***************************************************************************)
Constructions ==
  {[supplied |-> FALSE, given |-> <<>>],
   [supplied |-> TRUE, given |-> <<>>],
   [supplied |-> TRUE, given |-> <<ReasoningProcess(80), ReasoningProcess(60)>>],
   [supplied |-> TRUE,
    given |-> <<ActionProcess(90), PerceptionProcess, ActionProcess(50)>>]}

PassObservations ==
  {<<ObsDict(NameA, -1, -1), ObsText(NameBA)>>,
   <<ObsDict(NameBA, 90, -1), ObsDict(NameA, 30, 50), ObsDict(NameBA, 30, 50)>>,
   <<ObsDict(NoName, 50, 0)>>,
   <<ObsText(NameBA), ObsDict(NameA, 150, 50), ObsDict(NameBA, 30, 50)>>}

PerceptionPass ==
  \E observations \in PassObservations :
    LET r == perceive_result(perception_process(atoms, observations, now + 1))
    IN  Mutate([NoCall EXCEPT !.op = "perception_pass", !.supplied = TRUE,
                  !.observations = observations, !.raised = r.raised,
                  !.perception = r.result],
               r.atoms)

\* A read of the store: nothing is written and no timestamp is read.
GetKnowledgeSummary ==
  /\ atoms' = atoms
  /\ prev' = atoms
  /\ last' = [NoCall EXCEPT !.op = "get_knowledge_summary",
                !.summary = get_knowledge_summary(atoms)]
  /\ UNCHANGED <<processes, now, threads>>

\* A read of the store and of the stage list: nothing is written.
ExportKnowledge ==
  /\ atoms' = atoms
  /\ prev' = atoms
  /\ last' = [NoCall EXCEPT !.op = "export_knowledge",
                !.exported = export_knowledge(atoms, processes)]
  /\ UNCHANGED <<processes, now, threads>>

InitAgent ==
  /\ atoms = <<>>
  /\ \E c \in Constructions :
       /\ processes = CognitiveAgent_init(c.given)
       /\ last = [NoCall EXCEPT !.op = "init", !.supplied = c.supplied,
                    !.given = c.given]
  /\ now = 0
  /\ prev = <<>>
  /\ threads = <<>>

NextAgent ==
  \/ AddGoal
  \/ AddAction
  \/ Perceive
  \/ PerceptionPass
  \/ Reason
  \/ PlanActions
  \/ CognitiveCycle
  \/ GetKnowledgeSummary
  \/ ExportKnowledge

SpecAgent == InitAgent /\ [][NextAgent]_vars

(***************************************************************************)
(* SpecStore: a single caller working on the store and on its atoms:       *)
(* add_atom, link_atoms, and atom.update_truth_value(new_strength,         *)
(* new_confidence) called on an atom of the store.                         *)
(***************************************************************************)
EvidenceArgs ==
  {[strength |-> 90, confidence |-> 80],
   [strength |-> 100, confidence |-> 0],
   [strength |-> 0, confidence |-> 0]}

UpdateTruthValue ==
  \E i \in 1..Len(atoms), e \in EvidenceArgs :
    Mutate([NoCall EXCEPT !.op = "update_truth_value",
              !.source_id = atoms[i].id,
              !.truth_value = TruthValue(e.strength, e.confidence)],
           [atoms EXCEPT ![i] = update_truth_value(@, e.strength, e.confidence,
                                                   now + 1)])

NextStore ==
  \/ AddAtom
  \/ LinkAtoms
  \/ UpdateTruthValue

SpecStore == Init /\ [][NextStore]_vars

(***************************************************************************)
(* SpecPlan: an agent whose store already holds four goals, added by       *)
(* add_goal in the order "B", "b a", "a", "c" with priorities of the       *)
(* caller's choice.  The caller registers actions, marks goals as          *)
(* completed and runs the action stage.                                    *)
(***************************************************************************)
MaxPlan == 3

NameC == <<"c">>

PlanGoals ==
  {<<[name |-> NameB, priority |-> p[1]], [name |-> NameBA, priority |-> p[2]],
     [name |-> NameA, priority |-> p[3]], [name |-> NameC, priority |-> p[4]]>> :
     p \in {<<90, 90, 90, 90>>, <<30, 90, 50, 30>>, <<30, 30, 30, 90>>}}

PlanActionArgs ==
  {[name |-> NameA, success_prob |-> 70],
   [name |-> NameB, success_prob |-> 70],
   [name |-> NameC, success_prob |-> 70],
   [name |-> NameBA, success_prob |-> 90]}

RECURSIVE BuildGoals(_, _, _)
BuildGoals(as, goals, k) ==
  IF k > Len(goals) THEN as
  ELSE BuildGoals(agent_add_goal(as, goals[k].name, goals[k].priority, 0).atoms,
                  goals, k + 1)

PlanAddAction ==
  \E a \in PlanActionArgs :
    LET r == agent_add_action(atoms, a.name, a.success_prob, now + 1)
    IN  /\ now < MaxPlan
        /\ Step([NoCall EXCEPT !.op = "add_action", !.atom_type = "action",
                   !.name = a.name,
                   !.truth_value = TruthValue(a.success_prob, 50),
                   !.raised = r.raised, !.ret = r.ret],
                r.atoms)

\* goal.metadata["status"] = "completed", written by the caller on an active
\* goal.  No store operation is called and no timestamp is read.
CompleteGoal ==
  \E i \in 1..Len(atoms) :
    /\ now < MaxPlan
    /\ atoms[i].type = "goal"
    /\ atoms[i].metadata.status = "active"
    /\ atoms' = [atoms EXCEPT ![i].metadata.status = "completed"]
    /\ prev' = atoms
    /\ last' = [NoCall EXCEPT !.op = "set_status", !.atom_type = "goal",
                  !.name = atoms[i].name, !.source_id = atoms[i].id]
    /\ UNCHANGED <<processes, now, threads>>

PlanPass == now < MaxPlan /\ ActionPass

InitPlan ==
  /\ \E goals \in PlanGoals : atoms = BuildGoals(<<>>, goals, 1)
  /\ processes = CognitiveAgent_init(<<>>)
  /\ now = 0
  /\ prev = atoms
  /\ last = NoCall
  /\ threads = <<>>

NextPlan ==
  \/ PlanAddAction
  \/ CompleteGoal
  \/ PlanPass

SpecPlan == InitPlan /\ [][NextPlan]_vars

(***************************************************************************)
(* SpecRace: two callers running add_atom or link_atoms on one store, with *)
(* no mutual exclusion.  The interpreter may switch callers between the    *)
(* steps of a call.  In add_atom: creating the iterator of `for            *)
(* existing_atom in self.atoms.values()`, each turn of that loop, and the  *)
(* registration `self.atoms[atom.id] = atom` that follows the construction *)
(* of the atom.  A dict iterator raises RuntimeError when the dict has     *)
(* changed size since the iterator was created.  In link_atoms: the test   *)
(* of the two ids, the membership test on source.outgoing, and each of the *)
(* two appends.                                                            *)
(***************************************************************************)
Callers == 1..2

RaceArgs ==
  {[atom_type |-> "concept", name |-> NameA, truth_value |-> NoTV],
   [atom_type |-> "concept", name |-> NameA, truth_value |-> TruthValue(90, 80)],
   [atom_type |-> "goal", name |-> NameBA, truth_value |-> NoTV]}

RaceStores ==
  {<<>>,
   add_belief(<<>>, NameB, 60, 70, 0).atoms,
   add_atom(<<>>, "concept", NameA, NoTV, <<>>, EmptyMeta, 0).atoms,
   add_action(add_belief(<<>>, NameB, 60, 70, 0).atoms, NameA, 70, 0).atoms,
   link_atoms(add_action(add_belief(<<>>, NameB, 60, 70, 0).atoms, NameA, 70, 0).atoms, 1, 2).atoms}

\* A call of add_atom that has not started: pc is the step it is at, size
\* and pos are the state of its iterator.
Call(a) ==
  [pc |-> "call", atom_type |-> a.atom_type, name |-> a.name,
   truth_value |-> a.truth_value, size |-> 0, pos |-> 0, ret |-> 0,
   raised |-> FALSE, source_id |-> 0, target_id |-> 0, ok |-> FALSE]

\* Faulty variant: the scan never recognises the atom.
same_key_never(existing_atom, atom_type, name) == existing_atom.id = 0

\* existing_atom.type == atom_type and existing_atom.name == name
same_key(existing_atom, atom_type, name) ==
  existing_atom.type = atom_type /\ existing_atom.name = name

\* One turn of the loop: the iterator's next(), then the loop body.
scan_next(th, as, t) ==
  IF Len(as) # th.size
  THEN [th |-> [th EXCEPT !.pc = "done", !.raised = TRUE], atoms |-> as]
  ELSE IF th.pos >= Len(as)
  THEN [th |-> [th EXCEPT !.pc = "create"], atoms |-> as]
  ELSE IF same_key(as[th.pos + 1], th.atom_type, th.name)
  THEN [th |-> [th EXCEPT !.pc = "done", !.ret = as[th.pos + 1].id],
        atoms |-> IF th.truth_value # NoTV
                  THEN [as EXCEPT ![th.pos + 1] = update_truth_value(
                          @, th.truth_value.strength, th.truth_value.confidence, t)]
                  ELSE as]
  ELSE [th |-> [th EXCEPT !.pos = @ + 1], atoms |-> as]

\* atom = Atom(...); self.atoms[atom.id] = atom; return atom
register(th, as, t) ==
  [th |-> [th EXCEPT !.pc = "done", !.ret = Len(as) + 1],
   atoms |-> Append(as, Atom(Len(as) + 1, th.atom_type, th.name,
                             IF th.truth_value # NoTV THEN th.truth_value
                             ELSE TruthValue(50, 50),
                             <<>>, EmptyMeta, t))]

\* Calls of link_atoms that have not started: ok is the value returned.
RaceLinks ==
  {[Call([atom_type |-> NoType, name |-> NoName, truth_value |-> NoTV])
      EXCEPT !.pc = "link", !.source_id = l[1], !.target_id = l[2]] :
     l \in {<<1, 2>>, <<2, 1>>, <<1, 3>>}}

\* Faulty variant: the edge is recorded at its source only.
link_next_oneway(th, as) ==
  IF th.pc = "link"
  THEN IF ~Has(as, th.source_id) \/ ~Has(as, th.target_id)
       THEN [th |-> [th EXCEPT !.pc = "done", !.ok = FALSE], atoms |-> as]
       ELSE [th |-> [th EXCEPT !.pc = "member"], atoms |-> as]
  ELSE IF th.pc = "member"
  THEN IF Contains(Get(as, th.source_id).outgoing, th.target_id)
       THEN [th |-> [th EXCEPT !.pc = "done", !.ok = TRUE], atoms |-> as]
       ELSE [th |-> [th EXCEPT !.pc = "outgoing"], atoms |-> as]
  ELSE [th |-> [th EXCEPT !.pc = "done", !.ok = TRUE],
        atoms |-> [as EXCEPT ![IndexOf(as, th.source_id)].outgoing =
                               Append(@, th.target_id)]]

\* One step of link_atoms: `if source_id not in self.atoms or target_id not
\* in self.atoms: return False`; `if target_id not in source.outgoing`;
\* `source.outgoing.append(target_id)`;
\* `self.atoms[target_id].incoming.append(source_id)` and `return True`.
link_next(th, as) ==
  IF th.pc = "link"
  THEN IF ~Has(as, th.source_id) \/ ~Has(as, th.target_id)
       THEN [th |-> [th EXCEPT !.pc = "done", !.ok = FALSE], atoms |-> as]
       ELSE [th |-> [th EXCEPT !.pc = "member"], atoms |-> as]
  ELSE IF th.pc = "member"
  THEN IF Contains(Get(as, th.source_id).outgoing, th.target_id)
       THEN [th |-> [th EXCEPT !.pc = "done", !.ok = TRUE], atoms |-> as]
       ELSE [th |-> [th EXCEPT !.pc = "outgoing"], atoms |-> as]
  ELSE IF th.pc = "outgoing"
  THEN [th |-> [th EXCEPT !.pc = "incoming"],
        atoms |-> [as EXCEPT ![IndexOf(as, th.source_id)].outgoing =
                               Append(@, th.target_id)]]
  ELSE [th |-> [th EXCEPT !.pc = "done", !.ok = TRUE],
        atoms |-> [as EXCEPT ![IndexOf(as, th.target_id)].incoming =
                               Append(@, th.source_id)]]

RaceStep(c, r) ==
  /\ threads' = [threads EXCEPT ![c] = r.th]
  /\ atoms' = r.atoms
  /\ now' = IF r.atoms # atoms THEN now + 1 ELSE now
  /\ UNCHANGED <<processes, prev, last>>

\* self.atoms.values().__iter__(): the iterator remembers the dict's size.
BeginScan ==
  \E c \in Callers :
    /\ threads[c].pc = "call"
    /\ RaceStep(c, [th |-> [threads[c] EXCEPT !.pc = "scan",
                                               !.size = Len(atoms), !.pos = 0],
                     atoms |-> atoms])

ScanNext ==
  \E c \in Callers :
    /\ threads[c].pc = "scan"
    /\ RaceStep(c, scan_next(threads[c], atoms, now + 1))

Register ==
  \E c \in Callers :
    /\ threads[c].pc = "create"
    /\ RaceStep(c, register(threads[c], atoms, now + 1))

LinkNext ==
  \E c \in Callers :
    /\ threads[c].pc \in {"link", "member", "outgoing", "incoming"}
    /\ RaceStep(c, link_next(threads[c], atoms))

InitRace ==
  /\ atoms \in RaceStores
  /\ processes = <<>>
  /\ now = 0
  /\ prev = atoms
  /\ last = NoCall
  /\ threads \in [Callers -> {Call(a) : a \in RaceArgs} \cup RaceLinks]

NextRace ==
  \/ BeginScan
  \/ ScanNext
  \/ Register
  \/ LinkNext

SpecRace == InitRace /\ [][NextRace]_vars

(***************************************************************************)
(* Helpers of the properties.                                              *)
(***************************************************************************)
AddOps == {"add_atom", "add_belief", "add_goal", "add_action"}

Count(seq, x) == Cardinality({i \in 1..Len(seq) : seq[i] = x})

\* The last call was an add_atom (direct or through a wrapper) that returned.
Added == last.op \in AddOps /\ ~last.raised

\* Index in prev of the atom with the last call's (type, name); 0 if none.
Key == ExistingIndex(prev, last.atom_type, last.name)

(***************************************************************************)
(* C1: no two atoms of the store share a (type, name) pair; an add_atom    *)
(* whose pair already exists returns the existing atom's id and leaves     *)
(* the atom count unchanged, one whose pair does not exist adds exactly    *)
(* one atom and returns its id; so two consecutive add_atom calls with     *)
(* the same pair return the same id, and the second adds nothing.          *)
(***************************************************************************)
UniqueKeys ==
  \A i, j \in 1..Len(atoms) :
    (atoms[i].type = atoms[j].type /\ atoms[i].name = atoms[j].name) => i = j

DedupReturn ==
  Added =>
    IF Key # 0
    THEN last.ret = prev[Key].id /\ Len(atoms) = Len(prev)
    ELSE /\ Len(atoms) = Len(prev) + 1
         /\ ~Has(prev, last.ret)
         /\ Has(atoms, last.ret)
         /\ Get(atoms, last.ret).type = last.atom_type
         /\ Get(atoms, last.ret).name = last.name

SameKeyTwice ==
  (/\ last.op \in AddOps /\ ~last.raised
   /\ last'.op \in AddOps /\ ~last'.raised
   /\ last'.atom_type = last.atom_type /\ last'.name = last.name)
  => (last'.ret = last.ret /\ Len(atoms') = Len(atoms))

\* C1: unique (type, name) pairs, dedup returns the existing id, and a
\* repeated add_atom of the same pair adds nothing.
C1_Identity == [](UniqueKeys /\ DedupReturn) /\ [][SameKeyTwice]_vars

C1_Witness ==
  /\ last.op = "add_atom" /\ Key # 0
  /\ last.ret = prev[Key].id
  /\ Len(prev) = 2 /\ Len(atoms) = 2

(***************************************************************************)
(* C2: edge symmetry: for all atoms A and B of the store, B.id is in       *)
(* A.outgoing exactly when A.id is in B.incoming.                          *)
(***************************************************************************)
C2_EdgeSymmetry ==
  \A i, j \in 1..Len(atoms) :
    Contains(atoms[i].outgoing, atoms[j].id)
      <=> Contains(atoms[j].incoming, atoms[i].id)

C2_Witness ==
  /\ last.op = "add_atom" /\ Key = 0
  /\ Contains(last.outgoing, 1)
  /\ Contains(atoms[Len(atoms)].outgoing, 1)
  /\ Contains(atoms[1].incoming, atoms[Len(atoms)].id)

(***************************************************************************)
(* C3: merging evidence (ns, nc) into a truth value (s, c) with            *)
(* c + nc > 0 gives strength (s*c + ns*nc) / (c + nc) and confidence       *)
(* min(1, c + nc), both computed with the old confidence c.                *)
(***************************************************************************)
Merged == Added /\ Key # 0 /\ last.truth_value # NoTV

\* C3: the merge law, on every add_atom that merged a truth value.
C3_MergeLaw ==
  (Merged /\ prev[Key].truth_value.confidence + last.truth_value.confidence > 0)
  => LET s == prev[Key].truth_value.strength
         c == prev[Key].truth_value.confidence
         ns == last.truth_value.strength
         nc == last.truth_value.confidence
     IN  /\ atoms[Key].truth_value.strength = (s * c + ns * nc) \div (c + nc)
         /\ atoms[Key].truth_value.confidence = Min(One, c + nc)

C3_Witness ==
  /\ Merged
  /\ prev[Key].truth_value = TruthValue(50, 50)
  /\ last.truth_value = TruthValue(90, 80)
  /\ atoms[Key].truth_value = TruthValue(74, 100)

(***************************************************************************)
(* C4: a truth value outside [0,1] fails at construction: add_belief,      *)
(* add_goal and add_action called with an out-of-range strength,           *)
(* confidence, priority or success_prob raise and leave the store as it    *)
(* was.                                                                    *)
(***************************************************************************)
C4_ValidationFirst ==
  (/\ last.op \in {"add_belief", "add_goal", "add_action"}
   /\ ~TruthValueValid(last.truth_value.strength, last.truth_value.confidence))
  => (last.raised /\ atoms = prev)

C4_Witness ==
  /\ last.op = "add_belief" /\ last.raised
  /\ last.truth_value.strength > One
  /\ Key = 0 /\ Len(prev) > 0 /\ atoms = prev

(***************************************************************************)
(* C5: every atom's strength and confidence are in [0,1] in every          *)
(* reachable state.                                                        *)
(***************************************************************************)
C5_TruthValuesInRange ==
  \A i \in 1..Len(atoms) :
    TruthValueValid(atoms[i].truth_value.strength,
                    atoms[i].truth_value.confidence)

C5_Witness ==
  /\ last.op = "cognitive_cycle" /\ ~last.raised
  /\ Len(last.perception.ids) = 2
  /\ last.perception.ids[1] = last.perception.ids[2]
  /\ Get(atoms, last.perception.ids[1]).truth_value.confidence = One
  /\ \E i \in 1..Len(atoms) : atoms[i].type = "implication"
  /\ \E i \in 1..Len(atoms) : atoms[i].type = "execution"

(***************************************************************************)
(* C6: on the merge path of add_atom the outgoing and metadata arguments   *)
(* are ignored: no atom is added, the existing atom keeps its outgoing,    *)
(* incoming and metadata, every atom keeps its incoming list, and without  *)
(* a truth_value argument the existing atom is unchanged.                  *)
(***************************************************************************)
C6_MergeFrame ==
  (last.op = "add_atom" /\ Key # 0)
  => /\ Len(atoms) = Len(prev)
     /\ atoms[Key].outgoing = prev[Key].outgoing
     /\ atoms[Key].incoming = prev[Key].incoming
     /\ atoms[Key].metadata = prev[Key].metadata
     /\ \A i \in 1..Len(prev) : atoms[i].incoming = prev[i].incoming
     /\ atoms[Key].truth_value # prev[Key].truth_value
          => last.truth_value # NoTV
     /\ last.truth_value = NoTV => atoms[Key] = prev[Key]

C6_Witness ==
  /\ last.op = "add_atom" /\ Key # 0
  /\ Contains(last.outgoing, 1)
  /\ last.metadata # prev[Key].metadata
  /\ last.truth_value # NoTV
  /\ atoms[Key].truth_value # prev[Key].truth_value
  /\ atoms[1].incoming = <<>>

(***************************************************************************)
(* C7: link_atoms returns false and changes nothing when either id is      *)
(* absent from the store, and returns true when both are present;          *)
(* get_related_atoms on an absent id returns empty incoming and outgoing   *)
(* lists.                                                                  *)
(***************************************************************************)
C7_UnknownId ==
  /\ last.op = "link_atoms" =>
       /\ last.ok <=> (Has(prev, last.source_id) /\ Has(prev, last.target_id))
       /\ ~last.ok => atoms = prev
  /\ (last.op = "get_related_atoms" /\ ~Has(prev, last.source_id)) =>
       (last.related = [incoming |-> <<>>, outgoing |-> <<>>] /\ atoms = prev)

C7_Witness ==
  /\ last.op = "link_atoms"
  /\ Has(prev, last.source_id) /\ ~Has(prev, last.target_id)
  /\ ~last.ok /\ atoms = prev /\ Len(prev) = 2

(***************************************************************************)
(* C8: link_atoms is idempotent: a successful link_atoms(A, B) leaves B   *)
(* in A.outgoing and A in B.incoming, and a link_atoms(A, B) made when B   *)
(* is already in A.outgoing returns true and changes nothing, so no call   *)
(* adds a second entry for the pair to either list.                        *)
(***************************************************************************)
C8_LinkIdempotent ==
  (last.op = "link_atoms" /\ last.ok) =>
    LET si == IndexOf(prev, last.source_id)
        ti == IndexOf(prev, last.target_id)
    IN  /\ Contains(atoms[si].outgoing, last.target_id)
        /\ Contains(atoms[ti].incoming, last.source_id)
        /\ Contains(prev[si].outgoing, last.target_id) => atoms = prev
        /\ Count(atoms[si].outgoing, last.target_id)
             = IF Contains(prev[si].outgoing, last.target_id)
               THEN Count(prev[si].outgoing, last.target_id) ELSE 1
        /\ Count(atoms[ti].incoming, last.source_id)
             = IF Contains(prev[si].outgoing, last.target_id)
               THEN Count(prev[ti].incoming, last.source_id) ELSE 1

C8_Witness ==
  /\ last.op = "link_atoms" /\ last.ok
  /\ last.source_id = 1 /\ last.target_id = 1
  /\ prev[1].outgoing = <<1>> /\ prev[1].incoming = <<1>>
  /\ atoms[1].outgoing = <<1>> /\ atoms[1].incoming = <<1>>

(***************************************************************************)
(* C9 as stated: after add_goal(text, priority) returns, the returned      *)
(* atom has metadata.priority = priority, metadata.status = "active" and   *)
(* truth value (priority, 1.0), whatever the store held.                   *)
(***************************************************************************)
C9_AsStated ==
  (last.op = "add_goal" /\ ~last.raised) =>
    LET g == Get(atoms, last.ret)
    IN  /\ g.metadata.priority = last.truth_value.strength
        /\ g.metadata.status = "active"
        /\ g.truth_value = TruthValue(last.truth_value.strength, One)

(***************************************************************************)
(* C9 amended: when no goal atom named text exists before the call, the    *)
(* returned atom is new and has metadata.priority = priority,              *)
(* metadata.status = "active" and truth value (priority, 1.0); when one    *)
(* exists, the returned atom is that atom, its metadata is unchanged and   *)
(* its truth value is the merge of (priority, 1.0) into its former truth   *)
(* value, with confidence 1.0.                                             *)
(***************************************************************************)
C9_AddGoal ==
  (last.op = "add_goal" /\ ~last.raised) =>
    LET g == Get(atoms, last.ret)
        priority == last.truth_value.strength
    IN  IF Key = 0
        THEN /\ ~Has(prev, last.ret)
             /\ g.metadata.priority = priority
             /\ g.metadata.status = "active"
             /\ g.truth_value = TruthValue(priority, One)
        ELSE /\ g.id = prev[Key].id
             /\ g.metadata = prev[Key].metadata
             /\ g.truth_value =
                  TruthValue(
                    (prev[Key].truth_value.strength
                       * prev[Key].truth_value.confidence + priority * One)
                      \div (prev[Key].truth_value.confidence + One),
                    One)

C9_Witness ==
  /\ last.op = "add_goal" /\ ~last.raised /\ Key # 0
  /\ prev[Key].metadata.priority = 90
  /\ last.truth_value.strength = 50
  /\ Get(atoms, last.ret).metadata.priority = 90
  /\ Get(atoms, last.ret).truth_value = TruthValue(70, One)

(***************************************************************************)
(* C10: find_atoms(type?, name?, min_strength?) returns exactly the atoms  *)
(* that satisfy every supplied predicate (type equal, name equal,          *)
(* strength >= min_strength), each once, in store order; an argument is    *)
(* supplied unless it is None.                                             *)
(***************************************************************************)
Satisfies(atom, atom_type, name, min_strength) ==
  /\ atom_type # NoType => atom.type = atom_type
  /\ name # NoName => atom.name = name
  /\ min_strength # NoMin => atom.truth_value.strength >= min_strength

RECURSIVE ExactMatches(_, _, _, _, _)
ExactMatches(as, k, atom_type, name, min_strength) ==
  IF k > Len(as) THEN <<>>
  ELSE (IF Satisfies(as[k], atom_type, name, min_strength)
        THEN <<as[k].id>> ELSE <<>>)
       \o ExactMatches(as, k + 1, atom_type, name, min_strength)

\* C10: the result of find_atoms is exactly the matching atoms, in order.
C10_FindExact ==
  last.op = "find_atoms" =>
    last.ids = ExactMatches(prev, 1, last.atom_type, last.name,
                            last.min_strength)

(***************************************************************************)
(* C11: a perception pass over observations o1..on that returns has        *)
(* count = n and n ids in observation order, the i-th being the id of      *)
(* the belief atom named "perceived:" + concept_i; observations naming     *)
(* the same concept return the same id, there is exactly one belief atom   *)
(* of that name, its truth value is the evidence merge of those            *)
(* observations (strength default 0.7, confidence default 0.8) into the    *)
(* truth value the belief had, and the number of belief atoms grows by     *)
(* the number of distinct new concept names.                               *)
(***************************************************************************)
Perceived ==
  /\ last.op \in {"perceive", "perception_pass"}
  /\ ~last.raised /\ ~last.perception.error

PerceivedName(o) == <<"perceived:">> \o concept_name(o)

ObsTV(o) ==
  TruthValue(IF o.isdict /\ o.strength # -1 THEN o.strength ELSE 70,
             IF o.isdict /\ o.confidence # -1 THEN o.confidence ELSE 80)

MergeTV(tv, new) ==
  IF tv = NoTV THEN new
  ELSE IF tv.confidence + new.confidence > 0
       THEN TruthValue(
              (tv.strength * tv.confidence + new.strength * new.confidence)
                \div (tv.confidence + new.confidence),
              Min(One, tv.confidence + new.confidence))
       ELSE tv

RECURSIVE Evidence(_, _, _, _)
Evidence(tv, observations, k, name) ==
  IF k > Len(observations) THEN tv
  ELSE Evidence(IF PerceivedName(observations[k]) = name
                THEN MergeTV(tv, ObsTV(observations[k])) ELSE tv,
                observations, k + 1, name)

BeliefTV(as, name) ==
  IF ExistingIndex(as, "belief", name) # 0
  THEN as[ExistingIndex(as, "belief", name)].truth_value ELSE NoTV

BeliefNames(as) == {as[k].name : k \in {j \in 1..Len(as) : as[j].type = "belief"}}

C11_PerceptionPass ==
  Perceived =>
    LET obs == last.observations
        ids == last.perception.ids
    IN  /\ last.perception.count = Len(obs)
        /\ Len(ids) = Len(obs)
        /\ \A i \in 1..Len(obs) :
             /\ Has(atoms, ids[i])
             /\ Get(atoms, ids[i]).type = "belief"
             /\ Get(atoms, ids[i]).name = PerceivedName(obs[i])
             /\ Get(atoms, ids[i]).truth_value
                  = Evidence(BeliefTV(prev, PerceivedName(obs[i])), obs, 1,
                             PerceivedName(obs[i]))
             /\ Cardinality({k \in 1..Len(atoms) :
                               /\ atoms[k].type = "belief"
                               /\ atoms[k].name = PerceivedName(obs[i])}) = 1
             /\ \A j \in 1..Len(obs) :
                  PerceivedName(obs[j]) = PerceivedName(obs[i])
                    => ids[j] = ids[i]
        /\ CountType(atoms, "belief")
             = CountType(prev, "belief")
               + Cardinality({PerceivedName(obs[i]) : i \in 1..Len(obs)}
                               \ BeliefNames(prev))

C11_Witness ==
  /\ last.op = "perception_pass" /\ ~last.raised
  /\ Len(last.observations) = 3 /\ last.perception.count = 3
  /\ last.perception.ids[1] = last.perception.ids[3]
  /\ last.perception.ids[1] # last.perception.ids[2]
  /\ BeliefTV(prev, PerceivedName(last.observations[1])) # NoTV
  /\ BeliefTV(prev, PerceivedName(last.observations[2])) = NoTV
  /\ CountType(atoms, "belief") = CountType(prev, "belief") + 1

(***************************************************************************)
(* C12: a reasoning pass considers exactly the belief atoms with           *)
(* strength >= inference_threshold: beliefs_considered is their number,    *)
(* every returned inference is named after one of them, every atom the     *)
(* pass creates is an implication named after one of them, and no other    *)
(* implication is changed.                                                 *)
(***************************************************************************)
StrongBeliefs(as, threshold) ==
  {i \in 1..Len(as) :
     as[i].type = "belief" /\ as[i].truth_value.strength >= threshold}

GoalIndexes(as) == {i \in 1..Len(as) : as[i].type = "goal"}

FromStrongBelief(atom) ==
  /\ atom.type = "implication"
  /\ \E b \in StrongBeliefs(prev, last.threshold), g \in GoalIndexes(prev) :
       atom.name = ImplicationName(prev[b].name, prev[g].name)

C12_Threshold ==
  last.op = "reasoning_pass" =>
    /\ last.reasoning.beliefs_considered
         = Cardinality(StrongBeliefs(prev, last.threshold))
    /\ \A k \in 1..Len(last.reasoning.ids) :
         FromStrongBelief(Get(atoms, last.reasoning.ids[k]))
    /\ \A j \in 1..Len(atoms) :
         (j > Len(prev) \/ (atoms[j].type = "implication" /\ atoms[j] # prev[j]))
           => FromStrongBelief(atoms[j])

C12_Witness ==
  /\ last.op = "reasoning_pass" /\ last.threshold = 80
  /\ \E b \in 1..Len(prev), g \in GoalIndexes(prev) :
       /\ prev[b].type = "belief" /\ prev[b].truth_value.strength = 60
       /\ prev[g].metadata.status = "active"
       /\ is_relevant(prev[g].name, prev[b].name)
  /\ last.reasoning.beliefs_considered = 1
  /\ Len(last.reasoning.ids) = 1
  /\ Len(atoms) = Len(prev) + 1

(***************************************************************************)
(* C13 as stated: after a reasoning pass, for every pair (goal g, belief   *)
(* b) with g active, b.strength >= inference_threshold and the             *)
(* lower-cased word sets of the two names intersecting, the returned       *)
(* inferences contain the id of an implication atom named                  *)
(* "<b.name> => <g.name>" whose outgoing is [b.id, g.id] and, when newly   *)
(* created, whose truth value is (min(b.strength, 0.8), b.confidence*0.8); *)
(* no inference is returned for any other pair.                            *)
(***************************************************************************)
Intersect(goal_name, other_name) == Words(goal_name) \cap Words(other_name) # {}

EligiblePairs(as, threshold) ==
  {p \in GoalIndexes(as) \X StrongBeliefs(as, threshold) :
     /\ as[p[1]].metadata.status = "active"
     /\ Intersect(as[p[1]].name, as[p[2]].name)}

ImpliedTV(belief) ==
  TruthValue(Min(belief.truth_value.strength, 80),
             (belief.truth_value.confidence * 8) \div 10)

OnlyEligible ==
  /\ \A k \in 1..Len(last.reasoning.ids) :
       \E p \in EligiblePairs(prev, last.threshold) :
         Get(atoms, last.reasoning.ids[k]).name
           = ImplicationName(prev[p[2]].name, prev[p[1]].name)
  /\ Len(last.reasoning.ids)
       = Cardinality(EligiblePairs(prev, last.threshold))

C13_AsStated ==
  last.op = "reasoning_pass" =>
    /\ \A p \in EligiblePairs(prev, last.threshold) :
         \E k \in 1..Len(last.reasoning.ids) :
           LET imp == Get(atoms, last.reasoning.ids[k])
           IN  /\ imp.type = "implication"
               /\ imp.name = ImplicationName(prev[p[2]].name, prev[p[1]].name)
               /\ imp.outgoing = <<prev[p[2]].id, prev[p[1]].id>>
               /\ ~Has(prev, imp.id) => imp.truth_value = ImpliedTV(prev[p[2]])
    /\ OnlyEligible

(***************************************************************************)
(* C13 amended: for every such pair the returned inferences contain the    *)
(* id of the implication atom named "<b.name> => <g.name>"; when no        *)
(* implication atom of that name was in the store the atom is new, its     *)
(* outgoing is [b.id, g.id] and its truth value is                         *)
(* (min(b.strength, 0.8), b.confidence*0.8); when one was, it is that      *)
(* atom, its outgoing is unchanged and that truth value is merged into     *)
(* its own; no inference is returned for any other pair.                   *)
(***************************************************************************)
C13_Implications ==
  last.op = "reasoning_pass" =>
    /\ \A p \in EligiblePairs(prev, last.threshold) :
         \E k \in 1..Len(last.reasoning.ids) :
           LET imp == Get(atoms, last.reasoning.ids[k])
               e == ExistingIndex(prev, "implication",
                      ImplicationName(prev[p[2]].name, prev[p[1]].name))
           IN  /\ imp.type = "implication"
               /\ imp.name = ImplicationName(prev[p[2]].name, prev[p[1]].name)
               /\ IF e = 0
                  THEN /\ ~Has(prev, imp.id)
                       /\ imp.outgoing = <<prev[p[2]].id, prev[p[1]].id>>
                       /\ imp.truth_value = ImpliedTV(prev[p[2]])
                  ELSE /\ imp.id = prev[e].id
                       /\ imp.outgoing = prev[e].outgoing
                       /\ imp.truth_value
                            = MergeTV(prev[e].truth_value, ImpliedTV(prev[p[2]]))
    /\ OnlyEligible

C13_Witness ==
  /\ last.op = "reasoning_pass"
  /\ \E g1, g2 \in GoalIndexes(prev), b \in StrongBeliefs(prev, last.threshold) :
       /\ prev[g1].metadata.status = "active"
       /\ prev[g2].metadata.status = "active"
       /\ Intersect(prev[g1].name, prev[b].name)
       /\ ~Intersect(prev[g2].name, prev[b].name)
       /\ prev[g1].name # prev[b].name
       /\ last.reasoning.ids = <<Len(prev) + 1>>
       /\ atoms[Len(atoms)].outgoing = <<prev[b].id, prev[g1].id>>
       /\ atoms[Len(atoms)].truth_value = TruthValue(60, 56)

(***************************************************************************)
(* C14: goal eligibility is read on every pass: a reasoning pass returns   *)
(* an implication for a goal, and an action pass an execution for a goal,  *)
(* only if the goal's metadata.status is "active" in the store the pass    *)
(* starts from, whatever the status was before; and a goal that is         *)
(* active then, with a relevant belief at or above the threshold, gets     *)
(* its implication.                                                        *)
(***************************************************************************)
BeliefIndexes(as) == {i \in 1..Len(as) : as[i].type = "belief"}

ImplicationFor(g) ==
  \E k \in 1..Len(last.reasoning.ids), b \in BeliefIndexes(prev) :
    Get(atoms, last.reasoning.ids[k]).name
      = ImplicationName(prev[b].name, prev[g].name)

ExecutionFor(g) ==
  \E k \in 1..Len(last.action_planning.selected_actions) :
    last.action_planning.selected_actions[k].goal = prev[g].name

C14_Eligibility ==
  /\ last.op = "reasoning_pass" =>
       \A g \in GoalIndexes(prev) :
         /\ ImplicationFor(g) => prev[g].metadata.status = "active"
         /\ (/\ prev[g].metadata.status = "active"
             /\ \E b \in StrongBeliefs(prev, last.threshold) :
                  Intersect(prev[g].name, prev[b].name))
            => ImplicationFor(g)
  /\ last.op = "action_pass" =>
       \A g \in GoalIndexes(prev) :
         ExecutionFor(g) => prev[g].metadata.status = "active"

C14_Witness ==
  /\ last.op = "reasoning_pass"
  /\ last.reasoning.ids = <<>>
  /\ atoms = prev
  /\ \E g \in GoalIndexes(prev), b \in StrongBeliefs(prev, last.threshold) :
       /\ prev[g].metadata.status = "completed"
       /\ prev[g].metadata.priority # -1
       /\ Intersect(prev[g].name, prev[b].name)
       /\ ExistingIndex(prev, "implication",
                        ImplicationName(prev[b].name, prev[g].name)) # 0
       /\ prev[ExistingIndex(prev, "implication",
                 ImplicationName(prev[b].name, prev[g].name))].truth_value
            = ImpliedTV(prev[b])

(***************************************************************************)
(* C15 as stated: in an action-planning pass, for each considered goal g   *)
(* (the three strongest active goals) the selected action is a helping     *)
(* action whose score (action.strength + g.strength) / 2 is the maximum    *)
(* over the actions that help g, and g gets a selection if and only if     *)
(* that maximum is >= action_threshold; every entry has score >=           *)
(* action_threshold, and with no entry no execution atom is created.       *)
(***************************************************************************)
ActionIndexes(as) == {i \in 1..Len(as) : as[i].type = "action"}

Considered(as) ==
  {g \in GoalIndexes(as) :
     /\ as[g].metadata.status = "active"
     /\ Cardinality(
          {h \in GoalIndexes(as) :
             /\ as[h].metadata.status = "active"
             /\ \/ as[h].truth_value.strength > as[g].truth_value.strength
                \/ /\ as[h].truth_value.strength = as[g].truth_value.strength
                   /\ h < g}) < 3}

Helps(as, a, g) ==
  \/ \E i \in 1..Len(as) :
       /\ as[i].type = "implication"
       /\ Contains(as[i].outgoing, as[a].id)
       /\ Contains(as[i].outgoing, as[g].id)
  \/ Intersect(as[g].name, as[a].name)

Helping(as, g) == {a \in ActionIndexes(as) : Helps(as, a, g)}

Score(as, a, g) ==
  (as[a].truth_value.strength + as[g].truth_value.strength) \div 2

IsMaxScore(as, g, m) ==
  /\ \E a \in Helping(as, g) : Score(as, a, g) = m
  /\ \A a \in Helping(as, g) : Score(as, a, g) <= m

EntriesFor(g) ==
  {k \in 1..Len(last.action_planning.selected_actions) :
     last.action_planning.selected_actions[k].goal = prev[g].name}

EntriesSound ==
  /\ \A k \in 1..Len(last.action_planning.selected_actions) :
       /\ last.action_planning.selected_actions[k].score >= last.threshold
       /\ \E g \in Considered(prev) : k \in EntriesFor(g)
  /\ \A g \in Considered(prev) :
       /\ Cardinality(EntriesFor(g)) <= 1
       /\ \A k \in EntriesFor(g) :
            LET entry == last.action_planning.selected_actions[k]
            IN  \E a \in Helping(prev, g) :
                  /\ prev[a].name = entry.action
                  /\ Score(prev, a, g) = entry.score
                  /\ IsMaxScore(prev, g, entry.score)
  /\ last.action_planning.selected_actions = <<>> => atoms = prev

C15_AsStated ==
  last.op = "action_pass" =>
    /\ EntriesSound
    /\ \A g \in Considered(prev) :
         EntriesFor(g) # {}
           <=> \E m \in 0..One : IsMaxScore(prev, g, m) /\ m >= last.threshold

(***************************************************************************)
(* C16: for every entry {execution_id, action, goal, score} returned by    *)
(* an action-planning pass, after the pass the store holds an execution    *)
(* atom with that id, named "execute:" + action.name, with outgoing        *)
(* [action.id, goal.id], truth value (score, 0.8) and metadata             *)
(* {goal_id, action_id, expected_utility: score} of that entry's own       *)
(* action, goal and score.                                                 *)
(***************************************************************************)
C16_ExecutionAtoms ==
  last.op = "action_pass" =>
    \A k \in 1..Len(last.action_planning.selected_actions) :
      LET entry == last.action_planning.selected_actions[k]
          action == prev[ExistingIndex(prev, "action", entry.action)]
          goal == prev[ExistingIndex(prev, "goal", entry.goal)]
      IN  /\ Has(atoms, entry.execution_id)
          /\ Get(atoms, entry.execution_id).type = "execution"
          /\ Get(atoms, entry.execution_id).name = ExecutionName(action.name)
          /\ Get(atoms, entry.execution_id).outgoing = <<action.id, goal.id>>
          /\ Get(atoms, entry.execution_id).truth_value
               = TruthValue(entry.score, 80)
          /\ Get(atoms, entry.execution_id).metadata
               = ExecutionMeta(goal.id, action.id, entry.score)

(***************************************************************************)
(* C17: an agent constructed without a stage list holds exactly three      *)
(* stages, one Perception, one Reasoning and one Action in that order; an  *)
(* agent constructed with an explicit stage list (partial or empty) holds  *)
(* exactly the stages supplied.                                            *)
(***************************************************************************)
C17_Stages ==
  last.op = "init" =>
    IF last.supplied
    THEN processes = last.given
    ELSE /\ Len(processes) = 3
         /\ processes[1].kind = "perception"
         /\ processes[2].kind = "reasoning"
         /\ processes[3].kind = "action"

(***************************************************************************)
(* C18: capability-unavailable is non-fatal.  When no registered stage is  *)
(* of the requested kind, perceive / reason / plan_actions returns the     *)
(* error value without raising and without changing the store; a           *)
(* cognitive_cycle reports the error value under the key of each missing   *)
(* stage and still runs every later stage that is registered; and when     *)
(* several stages of one kind are registered, the first in list order      *)
(* (its threshold) is the one that runs.                                   *)
(***************************************************************************)
Registered(kind) == \E i \in 1..Len(processes) : processes[i].kind = kind

FirstThreshold(kind) ==
  processes[CHOOSE i \in 1..Len(processes) :
              /\ processes[i].kind = kind
              /\ \A j \in 1..(i - 1) : processes[j].kind # kind].threshold

\* The reasoning stage ran on the store `as` with the first stage's threshold.
ReasoningRan(result, as) ==
  /\ result.present /\ ~result.error
  /\ result.beliefs_considered
       = Cardinality(StrongBeliefs(as, FirstThreshold("reasoning")))
  /\ result.goals_considered = Cardinality(GoalIndexes(as))

\* The action stage ran on the goals and actions of `as` with the first
\* stage's threshold.
ActionRan(result, as) ==
  /\ result.present /\ ~result.error
  /\ \A k \in 1..Len(result.selected_actions) :
       result.selected_actions[k].score >= FirstThreshold("action")
  /\ \A g \in Considered(as) :
       (\E m \in 1..One :
          IsMaxScore(as, g, m) /\ m >= FirstThreshold("action"))
       <=> \E k \in 1..Len(result.selected_actions) :
             result.selected_actions[k].goal = as[g].name

C18_Unavailable ==
  /\ last.op = "perceive" /\ ~Registered("perception")
       => last.perception.error /\ ~last.raised /\ atoms = prev
  /\ last.op = "reason" =>
       IF Registered("reasoning") THEN ReasoningRan(last.reasoning, prev)
       ELSE last.reasoning.error /\ atoms = prev
  /\ last.op = "plan_actions" =>
       IF Registered("action") THEN ActionRan(last.action_planning, prev)
       ELSE last.action_planning.error /\ atoms = prev
  /\ (last.op = "cognitive_cycle" /\ ~last.raised) =>
       /\ (last.perception.present /\ ~Registered("perception"))
            => last.perception.error
       /\ last.perception.error => ~Registered("perception")
       /\ IF Registered("reasoning")
          THEN /\ last.reasoning.present /\ ~last.reasoning.error
               /\ ~(last.perception.present /\ ~last.perception.error)
                    => ReasoningRan(last.reasoning, prev)
          ELSE last.reasoning.present /\ last.reasoning.error
       /\ IF Registered("action")
          THEN ActionRan(last.action_planning, prev)
          ELSE last.action_planning.present /\ last.action_planning.error
       /\ (~Registered("reasoning") /\ ~Registered("action")
             /\ ~(last.perception.present /\ ~last.perception.error))
            => atoms = prev

C18_Witness ==
  /\ last.op = "cognitive_cycle"
  /\ last.supplied /\ last.observations # <<>>
  /\ last.perception.present /\ last.perception.error
  /\ last.reasoning.present /\ ~last.reasoning.error
  /\ last.action_planning.present /\ last.action_planning.error
  /\ last.reasoning.goals_considered = 1
  /\ last.reasoning.beliefs_considered = 0
  /\ StrongBeliefs(prev, 60) # {}
  /\ Len(processes) = 2 /\ processes[2].threshold = 60

(***************************************************************************)
(* C19: the cycle_results of a cognitive_cycle that returns contain the    *)
(* key "perception" if and only if an observations argument was supplied   *)
(* (is not None), and always contain the keys "reasoning" and              *)
(* "action_planning".                                                      *)
(***************************************************************************)
C19_CycleShape ==
  (last.op = "cognitive_cycle" /\ ~last.raised) =>
    /\ last.perception.present <=> last.supplied
    /\ last.reasoning.present
    /\ last.action_planning.present

(***************************************************************************)
(* C20: in every reachable store state, get_knowledge_summary reports      *)
(* goals, beliefs, actions and implications each equal to the number of    *)
(* atoms find_atoms returns for that type, and total_atoms equal to the    *)
(* number of atoms in the store.                                           *)
(***************************************************************************)
C20_Summary ==
  last.op = "get_knowledge_summary" =>
    /\ last.summary.goals = Len(find_atoms(prev, "goal", NoName, NoMin))
    /\ last.summary.beliefs = Len(find_atoms(prev, "belief", NoName, NoMin))
    /\ last.summary.actions = Len(find_atoms(prev, "action", NoName, NoMin))
    /\ last.summary.implications
         = Len(find_atoms(prev, "implication", NoName, NoMin))
    /\ last.summary.total_atoms = Len(prev)
    /\ atoms = prev

C20_Witness ==
  /\ last.op = "get_knowledge_summary"
  /\ last.summary.goals = 1
  /\ last.summary.actions = 1
  /\ last.summary.beliefs = 0
  /\ last.summary.implications = 0
  /\ last.summary.total_atoms = 3
  /\ \E i \in 1..Len(prev) : prev[i].type = "execution"

(***************************************************************************)
(* Helpers of C21, C22 and C24: the atom of prev that the last call        *)
(* merged evidence into (0 if it merged nothing), by                       *)
(* atom.update_truth_value or on the merge path of add_atom.               *)
(***************************************************************************)
MergedInto ==
  IF last.op = "update_truth_value" THEN IndexOf(prev, last.source_id)
  ELSE IF Merged THEN Key ELSE 0

\* The float v/One..(v+1)/One that the fixed-point value v stands for holds
\* a number whose rounding to three decimals is m/1000.
RoundsTo(v, m) == 20 * v < 2 * m + 1 /\ 2 * m - 1 < 20 * (v + 1)

MergeExample ==
  /\ MergedInto # 0
  /\ prev[MergedInto].truth_value = TruthValue(50, 50)
  /\ last.truth_value = TruthValue(90, 80)

(***************************************************************************)
(* C21: merging evidence (0.9, 0.8) into a truth value (0.5, 0.5) yields   *)
(* strength (0.5*0.5 + 0.9*0.8) / 1.3 and confidence min(1, 1.3) = 1.0.    *)
(* As stated the strength is approximately 0.754; the quotient 0.97 / 1.3  *)
(* is 0.746...                                                             *)
(***************************************************************************)
\* C21 as stated: the strength is (0.5*0.5 + 0.9*0.8) / 1.3, approximately
\* 0.754, and the confidence is 1.0.
C21_AsStated ==
  MergeExample
  => /\ atoms[MergedInto].truth_value.strength = (50 * 50 + 90 * 80) \div 130
     /\ RoundsTo(atoms[MergedInto].truth_value.strength, 754)
     /\ atoms[MergedInto].truth_value.confidence = One

\* C21: the strength is (0.5*0.5 + 0.9*0.8) / 1.3, approximately 0.746, and
\* the confidence is min(1, 1.3) = 1.0.
C21_MergeExample ==
  MergeExample
  => /\ atoms[MergedInto].truth_value.strength = (50 * 50 + 90 * 80) \div 130
     /\ RoundsTo(atoms[MergedInto].truth_value.strength, 746)
     /\ atoms[MergedInto].truth_value.confidence = Min(One, 50 + 80)
     /\ atoms[MergedInto].truth_value.confidence = One

C21_Witness ==
  /\ MergeExample
  /\ last.op = "update_truth_value"
  /\ atoms[MergedInto].truth_value.confidence = One
  /\ atoms[MergedInto].truth_value.strength > 50

(***************************************************************************)
(* C22: merging evidence with new_confidence = 0 into an atom whose        *)
(* confidence is 0 leaves its strength and confidence unchanged, whatever  *)
(* new_strength is, and still advances the atom's updated_at.              *)
(***************************************************************************)
ZeroWeightMerge ==
  /\ MergedInto # 0
  /\ prev[MergedInto].truth_value.confidence = 0
  /\ last.truth_value.confidence = 0

\* C22: a merge with total weight 0 leaves the truth value as it was and
\* advances updated_at; nothing else of the store changes.
C22_ZeroWeight ==
  ZeroWeightMerge
  => /\ atoms[MergedInto].truth_value = prev[MergedInto].truth_value
     /\ atoms[MergedInto].updated_at > prev[MergedInto].updated_at
     /\ atoms = [prev EXCEPT ![MergedInto].updated_at = now]

C22_Witness ==
  /\ ZeroWeightMerge
  /\ last.op = "update_truth_value"
  /\ last.truth_value.strength # prev[MergedInto].truth_value.strength
  /\ atoms[MergedInto].truth_value.strength = prev[MergedInto].truth_value.strength
  /\ atoms[MergedInto].updated_at > prev[MergedInto].updated_at

(***************************************************************************)
(* C23: the store is append-only.  Across every step the set of atom ids   *)
(* only grows, no atom's id, type or name changes, and each atom's         *)
(* outgoing and incoming lists only grow by appending.                     *)
(***************************************************************************)
IsPrefix(s, t) == Len(s) <= Len(t) /\ \A k \in 1..Len(s) : s[k] = t[k]

AppendOnlyStep ==
  /\ Ids(atoms) \subseteq Ids(atoms')
  /\ \A id \in Ids(atoms) :
       /\ Get(atoms', id).type = Get(atoms, id).type
       /\ Get(atoms', id).name = Get(atoms, id).name
       /\ IsPrefix(Get(atoms, id).outgoing, Get(atoms', id).outgoing)
       /\ IsPrefix(Get(atoms, id).incoming, Get(atoms', id).incoming)
  /\ \A i \in 1..Len(atoms) : atoms'[i].id = atoms[i].id

\* C23: every step of the store keeps the atoms it had, with their id, type
\* and name, and extends their outgoing and incoming lists at the end only.
C23_AppendOnly == [][AppendOnlyStep]_vars

C23_Witness ==
  /\ last.op = "link_atoms" /\ last.ok
  /\ \E i \in 1..Len(prev) :
       /\ prev[i].incoming # <<>>
       /\ Len(atoms[i].incoming) = Len(prev[i].incoming) + 1
       /\ atoms[i].incoming[Len(atoms[i].incoming)] = last.source_id
  /\ \E i \in 1..Len(prev) :
       /\ prev[i].outgoing # <<>>
       /\ Len(atoms[i].outgoing) = Len(prev[i].outgoing) + 1

(***************************************************************************)
(* C24: an atom's updated_at advances on every mutation of that atom: a    *)
(* truth-value merge and an edge addition (link_atoms changing the         *)
(* source's outgoing and the target's incoming, add_atom appending the     *)
(* new atom's id to a target's incoming) each leave the mutated atom with  *)
(* a later updated_at; updated_at never moves backwards.                   *)
(***************************************************************************)
MergeAdvances ==
  MergedInto # 0
  => atoms[MergedInto].updated_at > prev[MergedInto].updated_at

EdgeAdvances ==
  \A i \in 1..Len(prev) :
    (atoms[i].outgoing # prev[i].outgoing \/ atoms[i].incoming # prev[i].incoming)
    => atoms[i].updated_at > prev[i].updated_at

NeverBackwards ==
  \A i \in 1..Len(prev) : atoms[i].updated_at >= prev[i].updated_at

\* C24 as stated: after every call, an atom whose truth value was merged
\* or whose outgoing or incoming list was extended has a later updated_at
\* than before the call, and no updated_at went backwards.
C24_AsStated == MergeAdvances /\ EdgeAdvances /\ NeverBackwards

(***************************************************************************)
(* C25: export_knowledge returns the agent name, the names of the          *)
(* registered stages in registration order, and an atomspace snapshot      *)
(* holding the store name and exactly one entry per atom of the store,     *)
(* keyed by the atom's id, whose id, type, name, truth value, incoming,    *)
(* outgoing and metadata equal the atom's current values; the call         *)
(* changes nothing in the store.                                           *)
(***************************************************************************)
Exported == last.op = "export_knowledge"

EntryOf(id) ==
  {k \in 1..Len(last.exported.atomspace.atoms) :
     last.exported.atomspace.atoms[k].key = id}

SameFields(entry, atom) ==
  /\ entry.id = atom.id
  /\ entry.type = atom.type /\ entry.type \in AtomType
  /\ entry.name = atom.name
  /\ entry.truth_value.strength = atom.truth_value.strength
  /\ entry.truth_value.confidence = atom.truth_value.confidence
  /\ entry.incoming = atom.incoming
  /\ entry.outgoing = atom.outgoing
  /\ entry.metadata = atom.metadata

\* C25: the snapshot names the agent, the store and the stages in order,
\* has one entry per atom under the atom's id with the atom's fields, and
\* the store is as it was.
C25_Export ==
  Exported
  => /\ last.exported.agent = AgentName
     /\ last.exported.atomspace.name = StoreName
     /\ Len(last.exported.processes) = Len(processes)
     /\ \A i \in 1..Len(processes) :
          last.exported.processes[i] = processes[i].kind
     /\ Len(last.exported.atomspace.atoms) = Len(atoms)
     /\ \A k \in 1..Len(last.exported.atomspace.atoms) :
          Has(atoms, last.exported.atomspace.atoms[k].key)
     /\ \A id \in Ids(atoms) :
          /\ Cardinality(EntryOf(id)) = 1
          /\ \A k \in EntryOf(id) :
               SameFields(last.exported.atomspace.atoms[k].value, Get(atoms, id))
     /\ atoms = prev

C25_Witness ==
  /\ Exported
  /\ last.exported.processes = <<"perception", "reasoning", "action">>
  /\ Len(last.exported.atomspace.atoms) >= 3
  /\ \E k \in 1..Len(last.exported.atomspace.atoms) :
       /\ last.exported.atomspace.atoms[k].value.type = "goal"
       /\ last.exported.atomspace.atoms[k].value.incoming # <<>>
       /\ last.exported.atomspace.atoms[k].value.metadata.status = "active"
  /\ \E k \in 1..Len(last.exported.atomspace.atoms) :
       /\ last.exported.atomspace.atoms[k].value.type = "execution"
       /\ Len(last.exported.atomspace.atoms[k].value.outgoing) = 2

(***************************************************************************)
(* C26: within one cognitive_cycle(observations) call the stages run in    *)
(* the order perception, reasoning, action planning, each completing       *)
(* before the next starts: a belief perceived in the call with strength    *)
(* >= inference_threshold is counted in that call's beliefs_considered     *)
(* and yields its implications in that call, and the implications are in   *)
(* the store before action planning adds anything.                         *)
(***************************************************************************)
\* The call was a cycle in which the perception and reasoning stages ran.
CyclePerceived ==
  /\ last.op = "cognitive_cycle" /\ ~last.raised
  /\ last.perception.present /\ ~last.perception.error
  /\ last.reasoning.present /\ ~last.reasoning.error

\* Atoms created by the last call, by position in the store.
NewOfType(type) == {i \in (Len(prev) + 1)..Len(atoms) : atoms[i].type = type}

PerceivedStrong ==
  {b \in StrongBeliefs(atoms, FirstThreshold("reasoning")) :
     Contains(last.perception.ids, atoms[b].id)}

\* C26: the beliefs perceived in a cycle are seen by the reasoning of the
\* same cycle, and atoms are created in the order beliefs, implications,
\* executions.
C26_StageOrder ==
  /\ CyclePerceived
     => /\ last.reasoning.beliefs_considered
             = Cardinality(StrongBeliefs(atoms, FirstThreshold("reasoning")))
        /\ \A b \in PerceivedStrong, g \in GoalIndexes(atoms) :
             (atoms[g].metadata.status = "active"
                /\ Intersect(atoms[g].name, atoms[b].name))
             => \E i \in 1..Len(atoms) :
                  /\ atoms[i].type = "implication"
                  /\ atoms[i].name = ImplicationName(atoms[b].name, atoms[g].name)
                  /\ Contains(last.reasoning.ids, atoms[i].id)
  /\ last.op = "cognitive_cycle"
     => /\ \A b \in NewOfType("belief"), i \in NewOfType("implication") : b < i
        /\ \A i \in NewOfType("implication"), e \in NewOfType("execution") : i < e
        /\ \A b \in NewOfType("belief"), e \in NewOfType("execution") : b < e

C26_Witness ==
  /\ CyclePerceived
  /\ \E b \in PerceivedStrong :
       /\ b \in NewOfType("belief")
       /\ \E i \in NewOfType("implication") :
            /\ atoms[i].outgoing[1] = atoms[b].id
            /\ Contains(last.reasoning.ids, atoms[i].id)
  /\ NewOfType("execution") # {}
  /\ last.reasoning.beliefs_considered >= 1

(***************************************************************************)
(* C27: an action-planning pass considers only the three active goals of   *)
(* highest strength, ties keeping store insertion order:                   *)
(* goals_addressed = len(selected_actions) <= 3, the entries are in        *)
(* non-increasing order of goal strength, and an active goal ranked        *)
(* fourth or lower is never addressed, even when none of the top three     *)
(* has a qualifying action.                                                *)
(***************************************************************************)
ActionPassed == last.op = "action_pass"

\* The goal atom of prev that entry k of selected_actions names.
EntryGoal(k) ==
  CHOOSE g \in GoalIndexes(prev) :
    prev[g].name = last.action_planning.selected_actions[k].goal

\* Active goals of prev that are not among the three considered.
RankedLower ==
  {g \in GoalIndexes(prev) :
     prev[g].metadata.status = "active" /\ g \notin Considered(prev)}

Qualifies(g) ==
  \E a \in Helping(prev, g) :
    Score(prev, a, g) >= last.threshold /\ Score(prev, a, g) > 0

\* C27: at most three entries, one per considered goal at most, in
\* non-increasing order of goal strength, none for a goal ranked lower.
C27_TopThree ==
  ActionPassed
  => /\ last.action_planning.count = Len(last.action_planning.selected_actions)
     /\ Len(last.action_planning.selected_actions) <= 3
     /\ \A k \in 1..Len(last.action_planning.selected_actions) :
          /\ \E g \in Considered(prev) : k \in EntriesFor(g)
          /\ \A g \in RankedLower : k \notin EntriesFor(g)
     /\ \A k, l \in 1..Len(last.action_planning.selected_actions) :
          k < l => /\ prev[EntryGoal(k)].truth_value.strength
                        >= prev[EntryGoal(l)].truth_value.strength
                   /\ prev[EntryGoal(k)].truth_value.strength
                        = prev[EntryGoal(l)].truth_value.strength
                      => EntryGoal(k) < EntryGoal(l)

C27_Witness ==
  /\ ActionPassed
  /\ Cardinality(Considered(prev)) = 3
  /\ \E g \in RankedLower :
       /\ Qualifies(g)
       /\ \E h \in Considered(prev) :
            prev[h].truth_value.strength = prev[g].truth_value.strength
  /\ \A g \in Considered(prev) : ~Qualifies(g)
  /\ last.action_planning.selected_actions = <<>>
  /\ atoms = prev

(***************************************************************************)
(* C28: when several actions that help a goal have the same maximal        *)
(* score, the action selected for that goal is the one that comes first    *)
(* in store insertion order; a later action with an equal score never      *)
(* replaces it.                                                            *)
(***************************************************************************)
\* The actions of prev that help goal g with the maximal score.
MaxScoring(g) ==
  {a \in Helping(prev, g) :
     \A b \in Helping(prev, g) : Score(prev, b, g) <= Score(prev, a, g)}

FirstOf(S) == CHOOSE a \in S : \A b \in S : a <= b

\* C28: a considered goal whose maximal score is positive and reaches the
\* threshold gets one entry, naming the first action of maximal score.
C28_FirstWins ==
  ActionPassed
  => \A g \in Considered(prev) :
       (/\ MaxScoring(g) # {}
        /\ Score(prev, FirstOf(MaxScoring(g)), g) >= last.threshold
        /\ Score(prev, FirstOf(MaxScoring(g)), g) > 0)
       => /\ Cardinality(EntriesFor(g)) = 1
          /\ \A k \in EntriesFor(g) :
               /\ last.action_planning.selected_actions[k].action
                    = prev[FirstOf(MaxScoring(g))].name
               /\ last.action_planning.selected_actions[k].score
                    = Score(prev, FirstOf(MaxScoring(g)), g)

C28_Witness ==
  /\ ActionPassed
  /\ \E g \in Considered(prev) :
       /\ Cardinality(MaxScoring(g)) = 2
       /\ \E k \in EntriesFor(g) :
            /\ last.action_planning.selected_actions[k].action
                 = prev[FirstOf(MaxScoring(g))].name
            /\ last.action_planning.selected_actions[k].action = NameB
            /\ \E b \in MaxScoring(g) :
                 /\ b > FirstOf(MaxScoring(g))
                 /\ prev[b].name = NameA

(***************************************************************************)
(* C29: in the result of a reasoning pass goals_considered is the number   *)
(* of all goal atoms of the store, whatever their status, while            *)
(* implications are produced for active goals only; with k inactive goals  *)
(* and no active goal, goals_considered = k and inferences is empty.       *)
(***************************************************************************)
ReasoningPassed == last.op = "reasoning_pass"

ActiveGoals(as) == {g \in GoalIndexes(as) : as[g].metadata.status = "active"}

Duplicates ==
  {p \in (1..Len(atoms)) \X (1..Len(atoms)) :
     /\ p[1] < p[2]
     /\ atoms[p[1]].type = atoms[p[2]].type
     /\ atoms[p[1]].name = atoms[p[2]].name}

\* The caller whose call registered the atom at position j.
Creator(j) ==
  {c \in Callers :
     /\ threads[c].pc = "done" /\ ~threads[c].raised
     /\ threads[c].ret = atoms[j].id /\ j > Len(prev)}

\* C30: two atoms share a (type, name) pair only through the race: both
\* were registered by the two callers, and the caller that registered the
\* later one had passed its check (a scan of the first `size` atoms) before
\* the earlier one was registered; a caller that starts its scan after the
\* other's registration never adds a second atom.
C30_CheckThenAct ==
  \A p \in Duplicates :
    /\ Creator(p[1]) # {} /\ Creator(p[2]) # {}
    /\ Creator(p[1]) \cap Creator(p[2]) = {}
    /\ \A c \in Creator(p[2]) : threads[c].size < p[1]

C30_Witness ==
  /\ \A c \in Callers : threads[c].pc = "done" /\ ~threads[c].raised
  /\ threads[1].atom_type = threads[2].atom_type
  /\ threads[1].name = threads[2].name
  /\ ExistingIndex(prev, threads[1].atom_type, threads[1].name) = 0
  /\ threads[1].ret # threads[2].ret
  /\ Len(atoms) = Len(prev) + 2
  /\ Duplicates # {}

(***************************************************************************)
(* C31: the membership check and the two appends of link_atoms are a       *)
(* check-then-act sequence that is not atomic against interleaved writers: *)
(* when two callers run link_atoms(A, B) for one unlinked pair with no     *)
(* mutual exclusion, an interleaving exists in which both pass the check   *)
(* and B.id ends up twice in A.outgoing and A.id twice in B.incoming; an   *)
(* interleaving between the two appends exposes a state in which B.id is   *)
(* in A.outgoing and A.id is not yet in B.incoming.                        *)
(***************************************************************************)
\* The callers of link_atoms(a, b) that are at one of the steps in pcs.
Linkers(a, b, pcs) ==
  {c \in Callers :
     /\ threads[c].source_id = a /\ threads[c].target_id = b
     /\ threads[c].pc \in pcs}

\* The occurrences of b in the outgoing list of a, and of a in the incoming
\* list of b.
Forward(as, a, b) == Count(Get(as, a).outgoing, b)

Backward(as, a, b) == Count(Get(as, b).incoming, a)

\* C31: an edge is recorded at its source and not at its target exactly
\* while a caller stands between the two appends; an edge the store held
\* before the calls is never recorded again; and an edge is recorded at
\* most once for each caller of link_atoms on that pair that has passed its
\* check, so it is recorded twice only when both callers passed the check
\* before either appended.
C31_CheckThenAct ==
  \A a \in Ids(atoms), b \in Ids(atoms) :
    /\ Forward(atoms, a, b) - Backward(atoms, a, b)
         = Cardinality(Linkers(a, b, {"incoming"}))
    /\ Has(prev, a) /\ Has(prev, b) /\ Forward(prev, a, b) > 0
         => Forward(atoms, a, b) = Forward(prev, a, b)
    /\ Forward(atoms, a, b) > 1
         => /\ Linkers(a, b, {"incoming", "done"}) = Callers
            /\ Forward(prev, a, b) = 0

C31_Witness ==
  /\ \A c \in Callers : threads[c].pc = "done" /\ threads[c].ok
  /\ threads[1].source_id = 1 /\ threads[1].target_id = 2
  /\ threads[2].source_id = 1 /\ threads[2].target_id = 2
  /\ Forward(prev, 1, 2) = 0
  /\ Get(atoms, 1).outgoing = <<2, 2>>
  /\ Get(atoms, 2).incoming = <<1, 1>>

(***************************************************************************)
(* C32: reasoning does not influence action planning: for any store in     *)
(* which no implication atom's outgoing contains an action id, the         *)
(* (action, goal, score) selections returned by action planning are the    *)
(* same whether or not reasoning is run first, because every implication   *)
(* made by reasoning links a belief id and a goal id.                      *)
(***************************************************************************)
\* No implication of the store has the id of an action in its outgoing.
NoActionImplication(as) ==
  \A i \in 1..Len(as), k \in ActionIndexes(as) :
    as[i].type = "implication" => ~Contains(as[i].outgoing, as[k].id)

\* The (action, goal, score) part of the selections of a pass.
Choices(selected_actions) ==
  [k \in 1..Len(selected_actions) |->
     [action |-> selected_actions[k].action,
      goal |-> selected_actions[k].goal,
      score |-> selected_actions[k].score]]

Planned(as, action_threshold) ==
  Choices(action_process(as, action_threshold, now + 1).selected_actions)

\* C32: on every store without an implication over an action, and for
\* every pair of thresholds, planning on the store as it is and planning on
\* the store that a reasoning pass leaves select the same
\* (action, goal, score) triples in the same order.
C32_NonInterference ==
  NoActionImplication(atoms) =>
    \A ith \in InferenceThresholds, ath \in ActionThresholds :
      Planned(reasoning_process(atoms, ith, now + 1).atoms, ath)
        = Planned(atoms, ath)

C32_Witness ==
  /\ NoActionImplication(atoms)
  /\ \E i \in 1..Len(atoms) : atoms[i].type = "implication"
  /\ Len(reasoning_process(atoms, 60, now + 1).atoms) > Len(atoms)
  /\ Planned(atoms, 50) # <<>>
  /\ Planned(reasoning_process(atoms, 60, now + 1).atoms, 50) = Planned(atoms, 50)

(***************************************************************************)
(* C33: over any sequence of store and stage operations an atom's          *)
(* confidence never decreases: every evidence merge leaves the confidence  *)
(* at or above its previous value, and an atom whose confidence has        *)
(* reached 1.0 keeps confidence 1.0.                                       *)
(***************************************************************************)
\* The atoms of prev whose truth value or updated_at the last call wrote.
Touched ==
  {i \in 1..Len(prev) :
     \/ atoms[i].truth_value # prev[i].truth_value
     \/ atoms[i].updated_at # prev[i].updated_at}

\* C33: after every call, each atom the store held before the call has a
\* confidence at least as high as before it, and 1.0 if it was 1.0.
C33_ConfidenceMonotone ==
  \A i \in 1..Len(prev) :
    /\ atoms[i].truth_value.confidence >= prev[i].truth_value.confidence
    /\ prev[i].truth_value.confidence = One
         => atoms[i].truth_value.confidence = One

C33_Witness ==
  /\ \E i \in Touched :
       /\ prev[i].truth_value.confidence = One
       /\ atoms[i].truth_value.confidence = One
       /\ atoms[i].truth_value.strength # prev[i].truth_value.strength
  /\ \E i \in Touched :
       /\ prev[i].truth_value.confidence < One
       /\ atoms[i].truth_value.confidence > prev[i].truth_value.confidence

(***************************************************************************)
(* C34: repeated cycles reach a fixed graph: after one cognitive_cycle()   *)
(* with no observations, every further cognitive_cycle() with no           *)
(* observations and nothing done in between creates no atom and adds no    *)
(* edge, and returns the same inference ids and the same                   *)
(* (execution_id, action, goal, score) selections; only the truth values   *)
(* and updated_at of the implication and execution atoms may change.       *)
(***************************************************************************)
\* cognitive_cycle() on the store that the cycle c left, at time t.
Again(c, t) == cognitive_cycle(c.atoms, processes, FALSE, <<>>, t)

\* as2 holds the atoms of as1 and no other, with the same edges; an atom
\* differs in its truth value and updated_at at most, and only if it is an
\* implication or an execution.
SameGraph(as1, as2) ==
  /\ Len(as2) = Len(as1)
  /\ \A i \in 1..Len(as1) :
       /\ [as2[i] EXCEPT !.truth_value = as1[i].truth_value,
                         !.updated_at = as1[i].updated_at] = as1[i]
       /\ as2[i] # as1[i] => as1[i].type \in {"implication", "execution"}

\* The cycle c2, run on the store that the cycle c1 left, found the fixed
\* graph and returned what c1 returned.
Fixed(c1, c2) ==
  /\ ~c2.raised
  /\ SameGraph(c1.atoms, c2.atoms)
  /\ c2.reasoning.ids = c1.reasoning.ids
  /\ c2.action_planning.selected_actions = c1.action_planning.selected_actions

\* A further cycle after the cycle c1.
FixedAfter(c1) == Fixed(c1, Again(c1, now + 2))

\* The last call was cognitive_cycle() with no observations.
PlainCycle ==
  /\ last.op = "cognitive_cycle" /\ ~last.raised
  /\ last.observations = <<>>

\* C34: from every reachable store, a first cycle without observations
\* followed by a second: the second leaves the graph of the first and
\* returns what it returned; and where the last call was such a cycle, a
\* further one leaves the graph of the state and returns what the last
\* call returned.
C34_FixedGraph ==
  /\ FixedAfter(Again([atoms |-> atoms], now + 1))
  /\ PlainCycle =>
       Fixed([atoms |-> atoms, reasoning |-> last.reasoning,
              action_planning |-> last.action_planning],
             Again([atoms |-> atoms], now + 1))

C34_Witness ==
  /\ PlainCycle
  /\ Len(atoms) > Len(prev)
  /\ last.reasoning.ids # <<>> \/ last.action_planning.selected_actions # <<>>
  /\ Again([atoms |-> atoms], now + 1).atoms # atoms
  /\ Fixed([atoms |-> atoms, reasoning |-> last.reasoning,
            action_planning |-> last.action_planning],
           Again([atoms |-> atoms], now + 1))

(***************************************************************************)
(* C35: a perception pass has no rollback: the observations are processed  *)
(* in list order, and when observation k carries a strength or confidence  *)
(* outside [0,1] the pass fails at k, with the beliefs created or merged   *)
(* for observations 1..k-1 left in the store and nothing recorded for      *)
(* observations k..n; inside cognitive_cycle the failure propagates, so    *)
(* reasoning and action planning do not run in that call.                  *)
(***************************************************************************)
\* The positions of the observations whose numbers TruthValue rejects.
Invalid(observations) ==
  {k \in 1..Len(observations) :
     ~TruthValueValid(ObsTV(observations[k]).strength,
                      ObsTV(observations[k]).confidence)}

FirstInvalid(observations) ==
  CHOOSE k \in Invalid(observations) : \A j \in Invalid(observations) : k <= j

\* The last call ran the perception stage on its observations.
PerceptionRan ==
  \/ last.op = "perception_pass"
  \/ last.op = "perceive" /\ Registered("perception")
  \/ /\ last.op = "cognitive_cycle" /\ Registered("perception")
     /\ last.supplied /\ last.observations # <<>>

\* The store holds the evidence of the observations before position k, and
\* nothing else of the call: each belief named before k has the truth value
\* that merging those observations in order gives, every other atom of the
\* store is as it was, and the new atoms are the beliefs named before k.
PrefixKept(observations, k) ==
  /\ \A i \in 1..(k - 1) :
       BeliefTV(atoms, PerceivedName(observations[i]))
         = Evidence(BeliefTV(prev, PerceivedName(observations[i])),
                    SubSeq(observations, 1, k - 1), 1,
                    PerceivedName(observations[i]))
  /\ \A j \in 1..Len(prev) :
       \/ atoms[j] = prev[j]
       \/ /\ prev[j].type = "belief"
          /\ \E i \in 1..(k - 1) : PerceivedName(observations[i]) = prev[j].name
          /\ [atoms[j] EXCEPT !.truth_value = prev[j].truth_value,
                              !.updated_at = prev[j].updated_at] = prev[j]
  /\ \A j \in (Len(prev) + 1)..Len(atoms) :
       /\ atoms[j].type = "belief"
       /\ \E i \in 1..(k - 1) : PerceivedName(observations[i]) = atoms[j].name
  /\ Len(atoms) = Len(prev)
       + Cardinality({PerceivedName(observations[i]) : i \in 1..(k - 1)}
                       \ BeliefNames(prev))

\* C35: a perception pass over observations with an invalid strength or
\* confidence raises, and only such a pass does; the store is then the
\* store of a pass over the observations before the first invalid one, no
\* perception result is returned, and in cognitive_cycle neither a
\* reasoning nor an action planning result exists.
C35_NoRollback ==
  /\ PerceptionRan => (last.raised <=> Invalid(last.observations) # {})
  /\ (PerceptionRan /\ last.raised) =>
       /\ PrefixKept(last.observations, FirstInvalid(last.observations))
       /\ last.perception = NoResult
       /\ last.reasoning = NoResult
       /\ last.action_planning = NoResult

C35_Witness ==
  /\ last.op = "cognitive_cycle" /\ last.raised
  /\ FirstInvalid(last.observations) = 2
  /\ Len(last.observations) = 3
  /\ Len(atoms) = Len(prev) + 1
  /\ BeliefTV(prev, PerceivedName(last.observations[3])) = NoTV
  /\ BeliefTV(atoms, PerceivedName(last.observations[3])) = NoTV
  /\ CountType(atoms, "execution") = 0
  /\ plan_actions(atoms, processes, now + 1).result.selected_actions # <<>>

====
